---- MODULE Spec2Model ----
(***************************************************************************)
(* Statement ingestion and categorization pipeline of spendalizer          *)
(* (backend/routes/transactions.py, backend/services/categorization.py,    *)
(* backend/services/parsers.py).                                           *)
(*                                                                         *)
(* Conventions                                                             *)
(*   - Python str values are TLA+ strings; Python None is the value None.  *)
(*   - Python floats that hold money are integers counting hundredths      *)
(*     (150.00 is 15000); a float NaN is carried by a separate flag.       *)
(*   - Confidence scores are never computed with, so they are kept as the  *)
(*     text of the literal ("1.0", "0.9", "0.95").                         *)
(*   - A raised exception is a value: Raised(text).                        *)
(*                                                                         *)
(* Specifications                                                          *)
(*   Spec        concurrent runs of import_transactions over the stores    *)
(*   SpecCat     categorize_transaction on drawn inputs and rule sets      *)
(*   SpecDup     check_duplicate on drawn stores and queries               *)
(*   SpecParse   the six extractors on drawn tables                        *)
(*   SpecStrat   categorize_with_rules, categorize_with_smart_patterns,    *)
(*               bulk_categorize_by_rules                                  *)
(*   SpecDelete  import_transactions together with delete-all requests     *)
(*   SpecSeq     import_transactions, one request at a time                *)
(*   SpecRules   create_rule, update_rule, import_rules and imports        *)
(***************************************************************************)
EXTENDS Integers, Sequences, FiniteSets, TLC

VARIABLES
    transactions,    \* db.transactions: set of transaction documents
    import_batches,  \* db.import_batches: set of batch documents
    category_rules,  \* db.category_rules: sequence of rule documents (store order)
    categories,      \* db.categories: sequence of category documents (store order)
    accounts,        \* db.accounts: set of account documents
    procs,           \* per request slot: the locals of one import_transactions call
    nimports,        \* number of import requests started so far (batch identities)
    faults,          \* number of store operations that have raised so far
    call,            \* the arguments of the call (SpecDelete: the delete-all request)
    ret              \* what the call returned (SpecDelete: the delete-all response)

vars == <<transactions, import_batches, category_rules, categories, accounts,
          procs, nimports, faults, call, ret>>

None == "None"

(***************************************************************************)
(* Python str methods, on TLA+ strings.  An argument is bound to a value   *)
(* once (x \in {s}) before it is scanned.                                  *)
(***************************************************************************)
\* The element of a one-element set.
Only(S) == CHOOSE r \in S : TRUE

LowerChar(c) ==
    CASE c = "A" -> "a" [] c = "B" -> "b" [] c = "C" -> "c" [] c = "D" -> "d"
      [] c = "E" -> "e" [] c = "F" -> "f" [] c = "G" -> "g" [] c = "H" -> "h"
      [] c = "I" -> "i" [] c = "J" -> "j" [] c = "K" -> "k" [] c = "L" -> "l"
      [] c = "M" -> "m" [] c = "N" -> "n" [] c = "O" -> "o" [] c = "P" -> "p"
      [] c = "Q" -> "q" [] c = "R" -> "r" [] c = "S" -> "s" [] c = "T" -> "t"
      [] c = "U" -> "u" [] c = "V" -> "v" [] c = "W" -> "w" [] c = "X" -> "x"
      [] c = "Y" -> "y" [] c = "Z" -> "z" [] OTHER -> c

RECURSIVE lower_from(_, _)
lower_from(s, i) ==
    IF i > Len(s) THEN "" ELSE LowerChar(SubSeq(s, i, i)) \o lower_from(s, i + 1)

lower(s) == Only({lower_from(x, 1) : x \in {s}})

\* pattern in s
Contains(pattern, s) ==
    \E x \in {s} : \E i \in 1..(Len(x) - Len(pattern) + 1) :
        SubSeq(x, i, i + Len(pattern) - 1) = pattern

startswith(s, prefix) ==
    \E x \in {s} : Len(prefix) <= Len(x) /\ SubSeq(x, 1, Len(prefix)) = prefix

endswith(s, suffix) ==
    \E x \in {s} : Len(suffix) <= Len(x)
                   /\ SubSeq(x, Len(x) - Len(suffix) + 1, Len(x)) = suffix

IsSpace(c) == c \in {" ", "\t", "\n", "\r"}

\* The position of the first character of s that is not white space
\* (Len(s) + 1 when there is none).
first_nonspace(s) ==
    CHOOSE k \in 1..(Len(s) + 1) :
        /\ k = Len(s) + 1 \/ ~IsSpace(SubSeq(s, k, k))
        /\ \A j \in 1..(k - 1) : IsSpace(SubSeq(s, j, j))

\* The position of the last character of s that is not white space (0 when
\* there is none).
last_nonspace(s) ==
    CHOOSE k \in 0..Len(s) :
        /\ k = 0 \/ ~IsSpace(SubSeq(s, k, k))
        /\ \A j \in (k + 1)..Len(s) : IsSpace(SubSeq(s, j, j))

lstrip(s) == Only({SubSeq(x, first_nonspace(x), Len(x)) : x \in {s}})

rstrip(s) == Only({SubSeq(x, 1, last_nonspace(x)) : x \in {s}})

strip(s) == rstrip(lstrip(s))

RECURSIVE remove_from(_, _, _)
remove_from(s, old, i) ==
    IF i > Len(s) THEN ""
    ELSE IF i + Len(old) - 1 <= Len(s) /\ SubSeq(s, i, i + Len(old) - 1) = old
    THEN remove_from(s, old, i + Len(old))
    ELSE SubSeq(s, i, i) \o remove_from(s, old, i + 1)

\* s.replace(old, "")
remove(s, old) == Only({remove_from(x, old, 1) : x \in {s}})

\* s.count(c), c one character
count(s, c) == Only({Cardinality({i \in 1..Len(x) : SubSeq(x, i, i) = c}) : x \in {s}})

(***************************************************************************)
(* Python floats and pandas cells.                                         *)
(***************************************************************************)
\* A float: nan, or the number v/100.
Float(v) == [nan |-> FALSE, v |-> v]
FloatNaN == [nan |-> TRUE, v |-> 0]

\* The number itself in place of its magnitude.
fabs_signed(x) == x

\* A test for a positive number in place of a negative one.
lt0_flipped(x) == ~x.nan /\ x.v > 0

\* abs and the comparisons with 0; every comparison with nan is False, except
\* != which is True.
fabs(x) == IF x.nan THEN x ELSE Float(IF x.v < 0 THEN -x.v ELSE x.v)
gt0(x) == ~x.nan /\ x.v > 0
le0(x) == ~x.nan /\ x.v <= 0
lt0(x) == ~x.nan /\ x.v < 0
eq0(x) == ~x.nan /\ x.v = 0
ne0(x) == x.nan \/ x.v # 0

\* A cell of a DataFrame: missing (NaN/None/NaT), a number, or a text.
NaN == [k |-> "nan", v |-> 0, s |-> ""]
Num(v) == [k |-> "num", v |-> v, s |-> ""]
Str(s) == [k |-> "str", v |-> 0, s |-> s]
notna(c) == c.k # "nan"

IsDigit(c) == c \in {"0", "1", "2", "3", "4", "5", "6", "7", "8", "9"}

DigitVal(c) ==
    CASE c = "0" -> 0 [] c = "1" -> 1 [] c = "2" -> 2 [] c = "3" -> 3 [] c = "4" -> 4
      [] c = "5" -> 5 [] c = "6" -> 6 [] c = "7" -> 7 [] c = "8" -> 8 [] c = "9" -> 9

\* Every character is a digit (true of "").
AllDigits(s) == \E x \in {s} : \A i \in 1..Len(x) : IsDigit(SubSeq(x, i, i))

\* str.isdigit()
isdigit(s) == \E x \in {s} : x # "" /\ AllDigits(x)

RECURSIVE nat_upto(_, _)
nat_upto(s, n) ==
    IF n = 0 THEN 0 ELSE 10 * nat_upto(s, n - 1) + DigitVal(SubSeq(s, n, n))

\* int(s) of a digit string
NatVal(s) == Only({nat_upto(x, Len(x)) : x \in {s}})

\* Index of the first occurrence of the character c in s, 0 when absent.
find(s, c) ==
    Only({IF \E i \in 1..Len(x) : SubSeq(x, i, i) = c
          THEN CHOOSE i \in 1..Len(x) :
                  SubSeq(x, i, i) = c /\ \A j \in 1..(i - 1) : SubSeq(x, j, j) # c
          ELSE 0 : x \in {s}})

\* The hundredths in the fraction digits fp.
hundredths(fp) ==
    IF fp = "" THEN 0
    ELSE IF Len(fp) = 1 THEN 10 * NatVal(fp)
    ELSE NatVal(SubSeq(fp, 1, 2))

\* float of the digits ip "." fp with the sign neg; ok is FALSE for
\* ValueError.
float_parts(neg, ip, fp) ==
    IF /\ AllDigits(ip) /\ AllDigits(fp) /\ Len(ip) + Len(fp) > 0
       /\ \A i \in 3..Len(fp) : SubSeq(fp, i, i) = "0"
    THEN [ok |-> TRUE,
          x |-> Float((IF neg THEN 0 - 1 ELSE 1) * (100 * NatVal(ip) + hundredths(fp)))]
    ELSE [ok |-> FALSE, x |-> Float(0)]

\* float of an unsigned body with its decimal point at dot (0: none).
float_body(neg, body, dot) ==
    IF lower(body) = "nan" THEN [ok |-> TRUE, x |-> FloatNaN]
    ELSE IF dot = 0 THEN float_parts(neg, body, "")
    ELSE float_parts(neg, SubSeq(body, 1, dot - 1), SubSeq(body, dot + 1, Len(body)))

\* float(text): ok is FALSE for ValueError. Decimal literals with an optional
\* sign and a fraction that is a whole number of hundredths, and nan in any
\* case, are read; the cell texts of the model stay inside that.
float_of(text) ==
    Only({Only({float_body(startswith(t, "-"), body, find(body, ".")) :
                 body \in {IF startswith(t, "-") \/ startswith(t, "+")
                           THEN SubSeq(t, 2, Len(t)) ELSE t}}) :
           t \in {strip(text)}})

\* str(x) of a float cell: "150.0", "150.25", "-50.0".
num_str(v) ==
    LET a == IF v < 0 THEN -v ELSE v
        f == a % 100
    IN  (IF v < 0 THEN "-" ELSE "") \o ToString(a \div 100) \o "."
        \o (IF f % 10 = 0 THEN ToString(f \div 10)
            ELSE IF f < 10 THEN "0" \o ToString(f) ELSE ToString(f))

\* str(cell)
cell_str(c) ==
    IF c.k = "str" THEN c.s ELSE IF c.k = "num" THEN num_str(c.v) ELSE "nan"

\* str(cell).replace(",", "").replace("INR", "")[.replace("₹", "")].strip()
amount_text(c, rupee) ==
    IF rupee THEN strip(remove(remove(remove(cell_str(c), ","), "INR"), "₹"))
    ELSE strip(remove(remove(cell_str(c), ","), "INR"))

(***************************************************************************)
(* pd.to_datetime(...).strftime("%Y-%m-%d"): the date text, or "" when the  *)
(* parse raises or yields NaT (strftime on NaT raises).                    *)
(***************************************************************************)
MonthNumber(mon) ==
    LET m == lower(mon) IN
    CASE m = "jan" -> "01" [] m = "feb" -> "02" [] m = "mar" -> "03" [] m = "apr" -> "04"
      [] m = "may" -> "05" [] m = "jun" -> "06" [] m = "jul" -> "07" [] m = "aug" -> "08"
      [] m = "sep" -> "09" [] m = "oct" -> "10" [] m = "nov" -> "11" [] m = "dec" -> "12"
      [] OTHER -> ""

ValidMonthDay(mm, dd) ==
    /\ Len(mm) = 2 /\ AllDigits(mm) /\ NatVal(mm) \in 1..12
    /\ Len(dd) = 2 /\ AllDigits(dd) /\ NatVal(dd) \in 1..31

\* %y: 00-68 are 2000-2068, 69-99 are 1969-1999.
Year4(yy) == IF NatVal(yy) <= 68 THEN "20" \o yy ELSE "19" \o yy

iso(yyyy, mm, dd) == yyyy \o "-" \o mm \o "-" \o dd

\* format="%d/%m/%y"
strptime_dmy2(s) ==
    LET dd == SubSeq(s, 1, 2)
        mm == SubSeq(s, 4, 5)
        yy == SubSeq(s, 7, 8)
    IN  IF Len(s) = 8 /\ SubSeq(s, 3, 3) = "/" /\ SubSeq(s, 6, 6) = "/"
           /\ ValidMonthDay(mm, dd) /\ AllDigits(yy)
        THEN iso(Year4(yy), mm, dd) ELSE ""

\* format="%d/%m/%Y"
strptime_dmy4(s) ==
    LET dd == SubSeq(s, 1, 2)
        mm == SubSeq(s, 4, 5)
        yyyy == SubSeq(s, 7, 10)
    IN  IF Len(s) = 10 /\ SubSeq(s, 3, 3) = "/" /\ SubSeq(s, 6, 6) = "/"
           /\ ValidMonthDay(mm, dd) /\ AllDigits(yyyy)
        THEN iso(yyyy, mm, dd) ELSE ""

\* format="%d-%b-%y"
strptime_dby2(s) ==
    LET dd == SubSeq(s, 1, 2)
        mm == MonthNumber(SubSeq(s, 4, 6))
        yy == SubSeq(s, 8, 9)
    IN  IF Len(s) = 9 /\ SubSeq(s, 3, 3) = "-" /\ SubSeq(s, 7, 7) = "-"
           /\ mm # "" /\ ValidMonthDay(mm, dd) /\ AllDigits(yy)
        THEN iso(Year4(yy), mm, dd) ELSE ""

\* pd.to_datetime(s, dayfirst=...) without a format, for the layouts of the
\* model: NN/NN/YYYY and NN/NN/YY (the first number is the day when dayfirst,
\* the month otherwise, unless only the other reading is a date), YYYY-MM-DD
\* and DD-Mon-YY. Anything else, "nan" included, does not give a date.
to_datetime(s, dayfirst) ==
    LET a == SubSeq(s, 1, 2)
        b == SubSeq(s, 4, 5)
        y == IF Len(s) = 10 THEN SubSeq(s, 7, 10) ELSE Year4(SubSeq(s, 7, 8))
        slashed == /\ Len(s) \in {8, 10}
                   /\ SubSeq(s, 3, 3) = "/" /\ SubSeq(s, 6, 6) = "/"
                   /\ AllDigits(SubSeq(s, 7, Len(s)))
    IN  IF slashed
        THEN (IF dayfirst
              THEN (IF ValidMonthDay(b, a) THEN iso(y, b, a)
                    ELSE IF ValidMonthDay(a, b) THEN iso(y, a, b) ELSE "")
              ELSE (IF ValidMonthDay(a, b) THEN iso(y, a, b)
                    ELSE IF ValidMonthDay(b, a) THEN iso(y, b, a) ELSE ""))
        ELSE IF Len(s) = 10 /\ SubSeq(s, 5, 5) = "-" /\ SubSeq(s, 8, 8) = "-"
                /\ AllDigits(SubSeq(s, 1, 4))
                /\ ValidMonthDay(SubSeq(s, 6, 7), SubSeq(s, 9, 10))
        THEN s
        ELSE strptime_dby2(s)

Raised(text) ==
    [category_id |-> None, categorisation_source |-> "RAISED", confidence_score |-> text]

IsRaised(r) == r.categorisation_source = "RAISED"

(***************************************************************************)
(* services/parsers.py. A decoded DataFrame is [columns, rows]: the column *)
(* labels and the rows, each a sequence of cells in column order. An       *)
(* extractor returns [error, records]: error is the text of the exception  *)
(* it raises ("" when it returns), records the list it returns.            *)
(***************************************************************************)
ParsedTxn(date, time, description, amount, direction) ==
    [date |-> date, time |-> time, description |-> description, amount |-> amount,
     direction |-> direction]

Returned(records) == [error |-> "", records |-> records]
ParseError(text) == [error |-> text, records |-> <<>>]

RECURSIVE flatten_from(_, _)
flatten_from(ss, i) == IF i > Len(ss) THEN <<>> ELSE ss[i] \o flatten_from(ss, i + 1)

\* The records of the rows, in row order.
Flatten(ss) == Only({flatten_from(x, 1) : x \in {ss}})

\* next((col for col in df.columns if any(word in col.lower() for word in words)), None)
\* as a column index, 0 for None.
first_col(columns, words) ==
    IF \E i \in 1..Len(columns) : \E w \in words : Contains(w, lower(columns[i]))
    THEN CHOOSE i \in 1..Len(columns) :
            /\ \E w \in words : Contains(w, lower(columns[i]))
            /\ \A j \in 1..(i - 1) : \A w \in words : ~Contains(w, lower(columns[j]))
    ELSE 0

\* The column labelled exactly label, 0 when there is none (row[label] raises
\* KeyError, row.get(label) is None).
col_named(columns, label) ==
    IF \E i \in 1..Len(columns) : columns[i] = label
    THEN CHOOSE i \in 1..Len(columns) :
            columns[i] = label /\ \A j \in 1..(i - 1) : columns[j] # label
    ELSE 0

\* pd.to_datetime(cell, dayfirst=...).strftime(...) on a raw cell: a number is
\* read as nanoseconds since the epoch, a missing cell is NaT.
to_datetime_cell(c, dayfirst) ==
    IF c.k = "str" THEN to_datetime(c.s, dayfirst)
    ELSE IF c.k = "num" THEN "1970-01-01" ELSE ""

NoAmount == [amount |-> Float(0), direction |-> "DEBIT"]

\* parse_hdfc_bank_csv, the withdrawal and deposit cells of one row.
hdfc_bank_csv_amount(columns, row) ==
    LET withdrawal_col == first_col(columns, {"withdrawal", "debit"})
        deposit_col == first_col(columns, {"deposit", "credit"})
        w == float_of(amount_text(row[withdrawal_col], FALSE))
        d == float_of(amount_text(row[deposit_col], FALSE))
        t1 == IF withdrawal_col # 0 /\ notna(row[withdrawal_col]) /\ w.ok
              THEN [amount |-> fabs(w.x), direction |-> "DEBIT"] ELSE NoAmount
    IN  IF deposit_col # 0 /\ notna(row[deposit_col]) /\ d.ok
        THEN [amount |-> fabs(d.x), direction |-> "CREDIT"] ELSE t1

hdfc_bank_csv_row(columns, row) ==
    LET date_col == col_named(columns, "Date")
        narration_col == col_named(columns, "Narration")
        date == IF date_col # 0 /\ row[date_col].k = "str"
                THEN strptime_dmy2(row[date_col].s) ELSE ""
        t == hdfc_bank_csv_amount(columns, row)
    IN  IF date = "" \/ narration_col = 0 THEN <<>>
        ELSE IF gt0(t.amount)
        THEN <<ParsedTxn(date, None, strip(cell_str(row[narration_col])), t.amount,
                         t.direction)>>
        ELSE <<>>

parse_hdfc_bank_csv(content) ==
    IF ~content.decodable THEN ParseError("Could not decode file.")
    ELSE Returned(Flatten([i \in 1..Len(content.rows) |->
                              hdfc_bank_csv_row(content.columns, content.rows[i])]))

\* parse_hdfc_bank_excel, the withdrawal and deposit cells of one row.
hdfc_bank_excel_amount(columns, row) ==
    LET withdrawal_col == first_col(columns, {"withdrawal", "debit"})
        deposit_col == first_col(columns, {"deposit", "credit"})
        w == float_of(amount_text(row[withdrawal_col], FALSE))
        d == float_of(amount_text(row[deposit_col], FALSE))
        t1 == IF withdrawal_col # 0 /\ notna(row[withdrawal_col]) /\ w.ok
              THEN [amount |-> fabs(w.x), direction |-> "DEBIT"] ELSE NoAmount
    IN  IF deposit_col # 0 /\ notna(row[deposit_col]) /\ d.ok
        THEN [amount |-> fabs(d.x), direction |-> "CREDIT"] ELSE t1

hdfc_bank_excel_row(columns, row) ==
    LET date_col == first_col(columns, {"date"})
        narration_col == first_col(columns, {"narration", "description", "particulars"})
        date == to_datetime(strip(cell_str(row[date_col])), TRUE)
        t == hdfc_bank_excel_amount(columns, row)
    IN  IF date_col = 0 \/ narration_col = 0 THEN <<>>
        ELSE IF date = "" THEN <<>>
        ELSE IF gt0(t.amount)
        THEN <<ParsedTxn(date, None, strip(cell_str(row[narration_col])), t.amount,
                         t.direction)>>
        ELSE <<>>

parse_hdfc_bank_excel(content) ==
    IF ~content.decodable THEN ParseError("Could not parse Excel file: <reason>")
    ELSE Returned(Flatten([i \in 1..Len(content.rows) |->
                              hdfc_bank_excel_row(content.columns, content.rows[i])]))

\* parse_generic_excel, "for col in df.columns" from column i on: every
\* withdrawal/debit and deposit/credit column that is not missing overwrites
\* the amount; failed is a float() that raised (the row is then skipped).
RECURSIVE generic_excel_amount(_, _, _, _)
generic_excel_amount(columns, row, i, t) ==
    IF i > Len(columns) \/ t.failed THEN t
    ELSE LET col_lower == lower(columns[i])
             isdebit == Contains("withdrawal", col_lower) \/ Contains("debit", col_lower)
             iscredit == Contains("deposit", col_lower) \/ Contains("credit", col_lower)
             f == float_of(amount_text(row[i], FALSE))
         IN  IF (isdebit \/ iscredit) /\ notna(row[i])
             THEN generic_excel_amount(columns, row, i + 1,
                      IF f.ok
                      THEN [amount |-> fabs(f.x),
                            direction |-> IF isdebit THEN "DEBIT" ELSE "CREDIT",
                            failed |-> FALSE]
                      ELSE [t EXCEPT !.failed = TRUE])
             ELSE generic_excel_amount(columns, row, i + 1, t)

generic_excel_row(columns, row, date_col, desc_col) ==
    LET date == to_datetime_cell(row[date_col], FALSE)
        t == generic_excel_amount(columns, row, 1,
                 [amount |-> Float(0), direction |-> "DEBIT", failed |-> FALSE])
    IN  IF date = "" \/ t.failed THEN <<>>
        ELSE IF gt0(t.amount)
        THEN <<ParsedTxn(date, None, strip(cell_str(row[desc_col])), t.amount,
                         t.direction)>>
        ELSE <<>>

parse_generic_excel(content, data_source) ==
    IF ~content.decodable THEN ParseError("Could not parse Excel file.")
    ELSE LET date_col == first_col(content.columns, {"date", "txn", "transaction"})
             desc_col == first_col(content.columns,
                                   {"narration", "description", "particulars", "details"})
         IN  IF date_col = 0 \/ desc_col = 0 THEN Returned(<<>>)
             ELSE Returned(Flatten([i \in 1..Len(content.rows) |->
                      generic_excel_row(content.columns, content.rows[i], date_col,
                                        desc_col)]))

\* parse_sbi_csv, one row of the frame read from the "Txn Date" header line on.
sbi_csv_row(columns, row) ==
    LET date_col == col_named(columns, "Txn Date")
        desc_col == col_named(columns, "Description")
        debit_col == first_col(columns, {"debit"})
        credit_col == first_col(columns, {"credit"})
        date == strptime_dby2(strip(cell_str(row[date_col])))
        dtext == amount_text(row[debit_col], FALSE)
        ctext == amount_text(row[credit_col], FALSE)
        d == float_of(dtext)
        c == float_of(ctext)
    IN  IF date_col = 0 \/ desc_col = 0 THEN <<>>
        ELSE IF ~notna(row[date_col]) \/ ~notna(row[desc_col]) THEN <<>>
        ELSE IF date = "" THEN <<>>
        ELSE IF debit_col = 0 \/ credit_col = 0 THEN <<>>
        ELSE LET t == IF notna(row[debit_col])
                      THEN (IF dtext # ""
                            THEN [amount |-> fabs(d.x), direction |-> "DEBIT",
                                  failed |-> ~d.ok]
                            ELSE [amount |-> Float(0), direction |-> "DEBIT",
                                  failed |-> FALSE])
                      ELSE IF notna(row[credit_col])
                      THEN (IF ctext # ""
                            THEN [amount |-> fabs(c.x), direction |-> "CREDIT",
                                  failed |-> ~c.ok]
                            ELSE [amount |-> Float(0), direction |-> "DEBIT",
                                  failed |-> FALSE])
                      ELSE [amount |-> Float(0), direction |-> "DEBIT", failed |-> FALSE]
             IN  IF ~t.failed /\ gt0(t.amount)
                 THEN <<ParsedTxn(date, None, strip(cell_str(row[desc_col])), t.amount,
                                  t.direction)>>
                 ELSE <<>>

\* No line of the file holds "txn date": every encoding is skipped and the
\* function ends on its raise.
parse_sbi_csv(content) ==
    IF ~content.decodable
       \/ ~\E i \in 1..Len(content.columns) : Contains("txn date", lower(content.columns[i]))
    THEN ParseError("Could not parse SBI CSV file.")
    ELSE Returned(Flatten([i \in 1..Len(content.rows) |->
                              sbi_csv_row(content.columns, content.rows[i])]))

\* parse_generic_csv, Method 1 (separate columns) then Method 2 (one amount
\* column with an indicator column or the sign).
generic_csv_amount(columns, row) ==
    LET withdrawal_col == first_col(columns, {"withdrawal", "debit"})
        deposit_col == first_col(columns, {"deposit", "credit"})
        amount_col == first_col(columns, {"amount", "amt", "value", "sum"})
        dr_cr_col == first_col(columns, {"dr/cr", "drcr", "type", "indicator"})
        w == float_of(amount_text(row[withdrawal_col], TRUE))
        d == float_of(amount_text(row[deposit_col], TRUE))
        a == float_of(amount_text(row[amount_col], TRUE))
        t1 == IF withdrawal_col # 0 /\ notna(row[withdrawal_col]) /\ w.ok /\ ne0(w.x)
              THEN [amount |-> fabs(w.x), direction |-> "DEBIT"] ELSE NoAmount
        t2 == IF deposit_col # 0 /\ notna(row[deposit_col]) /\ d.ok /\ ne0(d.x)
              THEN [amount |-> fabs(d.x), direction |-> "CREDIT"] ELSE t1
    IN  IF eq0(t2.amount) /\ amount_col # 0 /\ notna(row[amount_col]) /\ a.ok
        THEN [amount |-> fabs(a.x),
              direction |->
                  IF dr_cr_col # 0 /\ notna(row[dr_cr_col])
                  THEN (IF lower(strip(cell_str(row[dr_cr_col]))) \in {"cr", "credit", "c", "+"}
                        THEN "CREDIT" ELSE "DEBIT")
                  ELSE (IF lt0(a.x) THEN "CREDIT" ELSE "DEBIT")]
        ELSE t2

generic_csv_row(columns, row, date_col, desc_col) ==
    LET date == to_datetime_cell(row[date_col], TRUE)
        t == generic_csv_amount(columns, row)
    IN  IF date = "" THEN <<>>
        ELSE IF gt0(t.amount)
        THEN <<ParsedTxn(date, None, strip(cell_str(row[desc_col])), t.amount,
                         t.direction)>>
        ELSE <<>>

parse_generic_csv(content, data_source) ==
    IF ~content.decodable THEN ParseError("Could not decode file.")
    ELSE LET date_col == first_col(content.columns, {"date", "txn", "transaction"})
             desc_col == first_col(content.columns,
                             {"narration", "description", "particulars", "details", "memo"})
         IN  IF date_col = 0 \/ desc_col = 0 THEN Returned(<<>>)
             ELSE Returned(Flatten([i \in 1..Len(content.rows) |->
                      generic_csv_row(content.columns, content.rows[i], date_col,
                                      desc_col)]))

RECURSIVE join_from(_, _)
join_from(parts, i) ==
    IF i > Len(parts) THEN ""
    ELSE IF i = Len(parts) THEN parts[i]
    ELSE parts[i] \o " " \o join_from(parts, i + 1)

\* ' '.join(parts)
Join(parts) == Only({join_from(x, 1) : x \in {parts}})

\* The position of the first white-space character of t, Len(t) + 1 when
\* there is none.
first_space(t) ==
    CHOOSE k \in 1..(Len(t) + 1) :
        /\ k = Len(t) + 1 \/ IsSpace(SubSeq(t, k, k))
        /\ \A j \in 1..(k - 1) : ~IsSpace(SubSeq(t, j, j))

\* The tokens of a text that does not start with white space.
RECURSIVE split_tokens(_)
split_tokens(t) ==
    IF t = "" THEN <<>>
    ELSE Only({<<SubSeq(t, 1, n - 1)>>
               \o Only({split_tokens(rest) : rest \in {lstrip(SubSeq(t, n, Len(t)))}}) :
               n \in {first_space(t)}})

\* s.split(): the whitespace-separated tokens of s.
split_ws(s) == Only({split_tokens(x) : x \in {lstrip(s)}})

\* f"{n:02d}"
two_digits(n) == IF n < 10 THEN "0" \o ToString(n) ELSE ToString(n)

\* parse_hdfc_cc_excel, the values of one row that are not missing, in column
\* order: str(v).strip().lower() when stripped, str(v).lower() otherwise.
cc_row_values(row, stripped) ==
    Only({[i \in 1..Len(present) |->
              IF stripped THEN lower(strip(cell_str(present[i])))
              ELSE lower(cell_str(present[i]))] : present \in {SelectSeq(row, notna)}})

cc_is_header(row) ==
    \E row_str \in {Join(cc_row_values(row, TRUE))} :
        /\ Contains("transaction type", row_str) \/ Contains("domestic", row_str)
        /\ Contains("date", row_str) \/ Contains("amt", row_str)

\* The role the if/elif chain gives a header text.
cc_role_of(val) ==
    IF Contains("date", val) /\ Contains("time", val) THEN "date"
    ELSE IF val = "date" THEN "date"
    ELSE IF Contains("description", val) THEN "desc"
    ELSE IF val = "amt" \/ val = "amount" THEN "amt"
    ELSE IF Contains("debit", val) /\ Contains("credit", val) THEN "dr_cr"
    ELSE "none"

\* The role of a header cell; a missing cell has none.
cc_header_role(c) ==
    IF ~notna(c) THEN "none"
    ELSE Only({cc_role_of(val) : val \in {lower(strip(cell_str(c)))}})

\* Column positions count from 0 as in the code; NoCol is None.
NoCol == 0 - 1

\* The last position holding role in the roles of a header row (a later cell
\* overwrites an earlier one).
cc_last_with(roles, role) ==
    IF \E i \in 1..Len(roles) : roles[i] = role
    THEN (CHOOSE i \in 1..Len(roles) :
             roles[i] = role /\ \A j \in (i + 1)..Len(roles) : roles[j] # role) - 1
    ELSE NoCol

cc_header_cols(header_row_idx, roles) ==
    [header_row_idx |-> header_row_idx,
     date_col |-> cc_last_with(roles, "date"),
     desc_col |-> cc_last_with(roles, "desc"),
     amt_col |-> cc_last_with(roles, "amt"),
     dr_cr_col |-> cc_last_with(roles, "dr_cr"),
     raised |-> FALSE]

cc_no_cols(header_row_idx) ==
    [header_row_idx |-> header_row_idx, date_col |-> NoCol, desc_col |-> NoCol,
     amt_col |-> NoCol, dr_cr_col |-> NoCol, raised |-> FALSE]

ScanRows == 35
DefaultHeaderRow == 16

Min(a, b) == IF a < b THEN a ELSE b

\* The first of the rows i..n that is a header row, 0 when there is none.
RECURSIVE cc_header_from(_, _, _)
cc_header_from(rows, i, n) ==
    IF i > n THEN 0
    ELSE IF cc_is_header(rows[i]) THEN i
    ELSE cc_header_from(rows, i + 1, n)

cc_is_marked(row) ==
    \E row_str \in {Join(cc_row_values(row, FALSE))} :
        Contains("domestic", row_str) \/ Contains("international", row_str)

\* The first of the rows i..n that mentions domestic or international, 0 when
\* there is none.
RECURSIVE cc_marked_from(_, _, _)
cc_marked_from(rows, i, n) ==
    IF i > n THEN 0
    ELSE IF cc_is_marked(rows[i]) THEN i
    ELSE cc_marked_from(rows, i + 1, n)

\* Header discovery, for the header row h and the marked row k found among the
\* first rows (positions from 1, 0 for none): the header row counted from 0
\* as df.iloc does, with the columns read off it; else the row before the
\* marked row; else row 16.
cc_header_at(rows, h, k) ==
    IF h # 0
    THEN Only({cc_header_cols(h - 1, roles) :
                roles \in {[i \in 1..Len(rows[h]) |-> cc_header_role(rows[h][i])]}})
    ELSE IF k # 0 THEN cc_no_cols(k - 2)
    ELSE cc_no_cols(DefaultHeaderRow)

cc_find_header(rows) ==
    Only({Only({cc_header_at(rows, h, IF h = 0 THEN cc_marked_from(rows, 1, n) ELSE 0) :
                 h \in {cc_header_from(rows, 1, n)}}) :
           n \in {Min(ScanRows, Len(rows))}})

\* str.isalpha() of one character, for the letters of the model's texts.
IsAlpha(c) ==
    \/ LowerChar(c) # c
    \/ c \in {"a", "b", "c", "d", "e", "f", "g", "h", "i", "j", "k", "l", "m", "n", "o",
              "p", "q", "r", "s", "t", "u", "v", "w", "x", "y", "z"}

\* float(val_str.replace(',', '')) > 0 of line 105, which no try encloses: a
\* ValueError leaves the extractor.
cc_detect_amount(f, i, cols) ==
    IF ~f.ok THEN [cols EXCEPT !.raised = TRUE]
    ELSE IF gt0(f.x) THEN [cols EXCEPT !.amt_col = i - 1]
    ELSE cols

\* Column detection from one cell of the first data row (position i from 1,
\* stripped text val_str).
cc_detect_cell(val_str, i, cols) ==
    IF cols.date_col = NoCol /\ Contains("/", val_str) /\ Len(val_str) >= 10
    THEN (IF count(val_str, "/") >= 2 /\ isdigit(SubSeq(val_str, 1, find(val_str, "/") - 1))
          THEN [cols EXCEPT !.date_col = i - 1] ELSE cols)
    ELSE IF cols.desc_col = NoCol /\ Len(val_str) > 20
            /\ \E j \in 1..Len(val_str) : IsAlpha(SubSeq(val_str, j, j))
    THEN [cols EXCEPT !.desc_col = i - 1]
    ELSE IF cols.amt_col = NoCol /\ isdigit(remove(remove(val_str, ","), "."))
    THEN Only({cc_detect_amount(f, i, cols) : f \in {float_of(remove(val_str, ","))}})
    ELSE cols

\* Column detection from the first data row, cell i on.
RECURSIVE cc_detect_cols(_, _, _)
cc_detect_cols(row, i, cols) ==
    IF i > Len(row) \/ cols.raised THEN cols
    ELSE IF ~notna(row[i]) THEN cc_detect_cols(row, i + 1, cols)
    ELSE Only({cc_detect_cols(row, i + 1, c) :
                c \in {cc_detect_cell(strip(cell_str(row[i])), i, cols)}})

\* The time of day a token gives for the hour text hh and minute text mm,
\* txn_time when it gives none.
cc_time_of(hh, mm, txn_time) ==
    IF hh # "" /\ mm # "" /\ NatVal(hh) <= 23 /\ NatVal(mm) <= 59
    THEN two_digits(NatVal(hh)) \o ":" \o two_digits(NatVal(mm)) \o ":00"
    ELSE txn_time

\* time_part.split(':'): the first two fields of a text with a colon at c1.
cc_time_fields(time_part, c1, rest, txn_time) ==
    Only({cc_time_of(SubSeq(time_part, 1, c1 - 1),
                      IF c2 = 0 THEN rest ELSE SubSeq(rest, 1, c2 - 1), txn_time) :
           c2 \in {find(rest, ":")}})

cc_time_part(time_part, txn_time) ==
    Only({cc_time_fields(time_part, c1, SubSeq(time_part, c1 + 1, Len(time_part)),
                          txn_time) : c1 \in {find(time_part, ":")}})

\* The time of day among the tokens after the date ("| HH:MM" or "HH:MM"):
\* the last token that gives a valid hour and minute.
RECURSIVE cc_time(_, _, _)
cc_time(parts, i, txn_time) ==
    IF i > Len(parts) THEN txn_time
    ELSE IF Contains(":", parts[i]) /\ isdigit(strip(remove(remove(parts[i], ":"), "/")))
    THEN Only({cc_time(parts, i + 1, t) :
                t \in {cc_time_part(strip(remove(parts[i], "/")), txn_time)}})
    ELSE cc_time(parts, i + 1, txn_time)

\* The date and time of day of the stripped date text: date "" when the text
\* is not a date.
cc_date_time(date_str) ==
    IF Contains("/", date_str)
    THEN Only({[date |-> strptime_dmy4(parts[1]), time |-> cc_time(parts, 2, None)] :
                parts \in {split_ws(date_str)}})
    ELSE [date |-> to_datetime(date_str, TRUE), time |-> None]

\* The cell of a row at a column position (from 0), missing when the position
\* is None or beyond the row.
cc_cell(row, col) == IF col # NoCol /\ col < Len(row) THEN row[col + 1] ELSE NaN

\* A record whose direction compares the indicator cell as it stands.
cc_record_untrimmed(dt, description, f, dr_cr_cell) ==
    IF dt.date = "" THEN <<>>
    ELSE IF Len(description) < 3 THEN <<>>
    ELSE IF ~f.ok THEN <<>>
    ELSE IF le0(fabs(f.x)) THEN <<>>
    ELSE <<ParsedTxn(dt.date, dt.time, description, fabs(f.x),
                     IF notna(dr_cr_cell) /\ cell_str(dr_cr_cell) = "Cr"
                     THEN "CREDIT" ELSE "DEBIT")>>

\* The record of a row whose date, description and amount cells are present.
cc_record(dt, description, f, dr_cr_cell) ==
    IF dt.date = "" THEN <<>>
    ELSE IF Len(description) < 3 THEN <<>>
    ELSE IF ~f.ok THEN <<>>
    ELSE IF le0(fabs(f.x)) THEN <<>>
    ELSE <<ParsedTxn(dt.date, dt.time, description, fabs(f.x),
                     IF notna(dr_cr_cell) /\ lower(strip(cell_str(dr_cr_cell))) = "cr"
                     THEN "CREDIT" ELSE "DEBIT")>>

\* One data row; cols holds the column positions (from 0). Every test that
\* fails skips the row, so the order of the tests does not show.
hdfc_cc_row(row, cols) ==
    IF Len(SelectSeq(row, notna)) < 3 THEN <<>>
    ELSE IF ~notna(cc_cell(row, cols.date_col)) THEN <<>>
    ELSE IF ~notna(cc_cell(row, cols.desc_col)) THEN <<>>
    ELSE IF ~notna(cc_cell(row, cols.amt_col)) THEN <<>>
    ELSE Only({cc_record(dt, description, f, cc_cell(row, cols.dr_cr_col)) :
                dt \in {cc_date_time(strip(cell_str(cc_cell(row, cols.date_col))))},
                description \in {strip(cell_str(cc_cell(row, cols.desc_col)))},
                f \in {float_of(amount_text(cc_cell(row, cols.amt_col), TRUE))}})

\* The records of the rows after the header row h (counted from 0).
cc_rows(rows, cols) ==
    Flatten([i \in 1..Len(rows) |->
                IF i - 1 >= cols.header_row_idx + 1 THEN hdfc_cc_row(rows[i], cols)
                ELSE <<>>])

\* The columns the header row did not give are looked for in the first data
\* row, when there is one.
cc_columns(rows, hdr) ==
    IF (hdr.date_col = NoCol \/ hdr.desc_col = NoCol \/ hdr.amt_col = NoCol)
       /\ hdr.header_row_idx + 1 < Len(rows)
    THEN cc_detect_cols(rows[hdr.header_row_idx + 2], 1, hdr)
    ELSE hdr

cc_result(rows, cols) ==
    IF cols.raised THEN ParseError("could not convert string to float")
    ELSE Returned(cc_rows(rows, cols))

parse_hdfc_cc_excel(content) ==
    IF ~content.decodable THEN ParseError("Could not parse HDFC CC file: <reason>")
    ELSE Only({Only({cc_result(content.rows, cols) :
                      cols \in {cc_columns(content.rows, hdr)}}) :
                hdr \in {cc_find_header(content.rows)}})

\* import_transactions, lines 52-53: the declared name ends in xls or xlsx.
is_excel(filename) ==
    LET name == lower(filename)
    IN  \/ endswith(name, ".xls") \/ endswith(name, ".xlsx")
        \/ name \in {"xls", "xlsx"}

\* import_transactions, lines 57-79: the extractor for the data source.
parse_file(content, filename, data_source) ==
    IF data_source = "HDFC_BANK"
    THEN (IF is_excel(filename) THEN parse_hdfc_bank_excel(content)
          ELSE parse_hdfc_bank_csv(content))
    ELSE IF data_source = "HDFC_CC"
    THEN (IF is_excel(filename) THEN parse_hdfc_cc_excel(content)
          ELSE parse_generic_csv(content, data_source))
    ELSE IF data_source \in {"SBI_BANK", "SBI_CC"}
    THEN (IF is_excel(filename) THEN parse_generic_excel(content, data_source)
          ELSE parse_sbi_csv(content))
    ELSE (IF is_excel(filename) THEN parse_generic_excel(content, data_source)
          ELSE parse_generic_csv(content, data_source))

(***************************************************************************)
(* services/categorization.py                                              *)
(***************************************************************************)
\* What a strategy returns when it has no result (Python None).
NoResult ==
    [category_id |-> None, categorisation_source |-> None, confidence_score |-> None]

CC_BILL_PAYMENT_ID == "4c9b8d7a-6e4f-4b9a-2c3d-2e9f8a7b8c9d"
REFUND_ID == "d5221882-05a4-4540-aa04-64f595253d16"
CASH_WITHDRAWAL_ID == "a8f3e5c7-2b9d-4a1e-8f6c-9d2b7e4a3f1c"

cc_payment_patterns ==
    <<"credit card payment", "cc payment", "card payment", "bill payment",
      "payment received", "net banking", "neft", "imps", "upi">>

refund_patterns == <<"refund", "reversal", "cashback", "reimbursement">>

atm_patterns == <<"atm", "cash withdrawal", "cash wdl">>

\* for pattern in patterns: if pattern in desc_lower
AnyPatternIn(patterns, desc_lower) ==
    \E i \in 1..Len(patterns) : Contains(patterns[i], desc_lower)

\* A table that looks for the refund keywords before the payment keywords.
categorize_with_smart_patterns_refund_first(description, direction, transaction_type) ==
    LET desc_lower == lower(description) IN
    IF direction = "CREDIT" /\ AnyPatternIn(refund_patterns, desc_lower)
    THEN [category_id |-> REFUND_ID, categorisation_source |-> "RULE",
          confidence_score |-> "0.9"]
    ELSE IF direction = "CREDIT" /\ transaction_type = "CREDIT_CARD"
            /\ AnyPatternIn(cc_payment_patterns, desc_lower)
    THEN [category_id |-> CC_BILL_PAYMENT_ID, categorisation_source |-> "RULE",
          confidence_score |-> "1.0"]
    ELSE IF direction = "DEBIT" /\ AnyPatternIn(atm_patterns, desc_lower)
    THEN [category_id |-> CASH_WITHDRAWAL_ID, categorisation_source |-> "RULE",
          confidence_score |-> "0.95"]
    ELSE NoResult

categorize_with_smart_patterns(description, direction, transaction_type) ==
    LET desc_lower == lower(description) IN
    IF direction = "CREDIT" /\ transaction_type = "CREDIT_CARD"
       /\ AnyPatternIn(cc_payment_patterns, desc_lower)
    THEN [category_id |-> CC_BILL_PAYMENT_ID, categorisation_source |-> "RULE",
          confidence_score |-> "1.0"]
    ELSE IF direction = "CREDIT" /\ AnyPatternIn(refund_patterns, desc_lower)
    THEN [category_id |-> REFUND_ID, categorisation_source |-> "RULE",
          confidence_score |-> "0.9"]
    ELSE IF direction = "DEBIT" /\ AnyPatternIn(atm_patterns, desc_lower)
    THEN [category_id |-> CASH_WITHDRAWAL_ID, categorisation_source |-> "RULE",
          confidence_score |-> "0.95"]
    ELSE NoResult

\* .sort("priority", -1): descending priority, equal priorities in store order.
RECURSIVE SortByPriority(_)
SortByPriority(rules) ==
    IF rules = <<>> THEN <<>>
    ELSE LET top == CHOOSE i \in 1..Len(rules) :
                      /\ \A j \in 1..Len(rules) : rules[j].priority <= rules[i].priority
                      /\ \A j \in 1..(i - 1) : rules[j].priority < rules[i].priority
             rest == [k \in 1..(Len(rules) - 1) |-> IF k < top THEN rules[k] ELSE rules[k + 1]]
         IN <<rules[top]>> \o SortByPriority(rest)

\* A find() on the user alone.
rules_query_user_only(user_id, account_id) ==
    SelectSeq(category_rules, LAMBDA r : r.user_id = user_id)

\* The find() of categorize_with_rules: the user's active rules, and when an
\* account is given those scoped to it or to no account.
rules_query(user_id, account_id) ==
    SelectSeq(category_rules,
              LAMBDA r : /\ r.user_id = user_id
                         /\ r.is_active = TRUE
                         /\ (account_id # None /\ account_id # ""
                               => r.account_id \in {account_id, None}))

\* re.compile fails (re.error) on the patterns of the model that are malformed:
\* unbalanced groups or character classes.
re_error(pattern) ==
    \/ count(pattern, "(") # count(pattern, ")")
    \/ count(pattern, "[") # count(pattern, "]")

\* re.search for the well-formed patterns of the model: a literal, optionally
\* anchored with ^ and/or $.
re_search(pattern, s) ==
    LET a == startswith(pattern, "^")
        z == endswith(pattern, "$")
        body == SubSeq(pattern, IF a THEN 2 ELSE 1, Len(pattern) - (IF z THEN 1 ELSE 0))
    IN  IF a /\ z THEN s = body
        ELSE IF a THEN startswith(s, body)
        ELSE IF z THEN endswith(s, body)
        ELSE Contains(body, s)

\* One rule against the lower-cased description: "matched", "no", "skip" (the
\* bare except around re.search), or "raise" (rule["pattern"].lower() on a
\* pattern that is not a str).
rule_match(rule, description_lower) ==
    IF rule.pattern = None THEN "raise"
    ELSE LET pattern == lower(rule.pattern)
             match_type == rule.match_type
         IN  IF match_type = "CONTAINS"
             THEN (IF Contains(pattern, description_lower) THEN "matched" ELSE "no")
             ELSE IF match_type = "STARTS_WITH"
             THEN (IF startswith(description_lower, pattern) THEN "matched" ELSE "no")
             ELSE IF match_type = "ENDS_WITH"
             THEN (IF endswith(description_lower, pattern) THEN "matched" ELSE "no")
             ELSE IF match_type = "REGEX"
             THEN (IF re_error(pattern) THEN "skip"
                   ELSE IF re_search(pattern, description_lower) THEN "matched" ELSE "no")
             ELSE "no"

\* for rule in rules: ... return on the first match
RECURSIVE rules_loop(_, _)
rules_loop(rules, description_lower) ==
    IF rules = <<>> THEN NoResult
    ELSE LET m == rule_match(Head(rules), description_lower) IN
         IF m = "raise"
         THEN Raised("'NoneType' object has no attribute 'lower'")
         ELSE IF m = "matched"
         THEN [category_id |-> Head(rules).category_id, categorisation_source |-> "RULE",
               confidence_score |-> "1.0"]
         ELSE rules_loop(Tail(rules), description_lower)

\* categorize_with_rules over the rules in store order.
categorize_with_rules_unsorted(user_id, description, account_id) ==
    rules_loop(rules_query(user_id, account_id), lower(description))

categorize_with_rules(user_id, description, account_id) ==
    rules_loop(SortByPriority(rules_query(user_id, account_id)), lower(description))

\* The categories find() of categorize_with_llm and of its name lookup.
visible_categories(user_id) ==
    SelectSeq(categories, LAMBDA c : c.is_system = TRUE \/ c.user_id = user_id)

\* A categorize_with_llm that lets a failure of the endpoint escape.
categorize_with_llm_uncaught(description, amount, direction, transaction_type, user_id, llm) ==
    IF llm.kind = "ok"
    THEN LET found == SelectSeq(visible_categories(user_id),
                                LAMBDA c : c.name = llm.category)
         IN  IF found # <<>>
             THEN [category_id |-> Head(found).id, categorisation_source |-> "LLM",
                   confidence_score |-> IF llm.confidence = None THEN "0.5"
                                        ELSE llm.confidence]
             ELSE NoResult
    ELSE Raised(llm.kind)

\* llm is what the inference endpoint does for this call:
\*   kind "connect_error" | "timeout"   httpx raises
\*   kind "non_200"                      response.status_code != 200
\*   kind "bad_json"                     json.loads raises JSONDecodeError
\*   kind "not_object"                   the JSON is not an object (.get raises)
\*   kind "empty"                        "{}": no category key
\*   kind "ok"                           {"category": ..., "confidence": ...}
categorize_with_llm(description, amount, direction, transaction_type, user_id, llm) ==
    IF llm.kind = "ok"
    THEN LET found == SelectSeq(visible_categories(user_id),
                                LAMBDA c : c.name = llm.category)
         IN  IF found # <<>>
             THEN [category_id |-> Head(found).id, categorisation_source |-> "LLM",
                   confidence_score |-> IF llm.confidence = None THEN "0.5"
                                        ELSE llm.confidence]
             ELSE NoResult
    ELSE NoResult

\* categorize_transaction with the user rules consulted before the smart patterns.
categorize_transaction_rules_first(user_id, description, amount, direction, transaction_type, account_id, llm) ==
    LET smart_result == categorize_with_smart_patterns(description, direction,
                                                       transaction_type)
        rule_result == categorize_with_rules(user_id, description, account_id)
        llm_result == categorize_with_llm(description, amount, direction,
                                          transaction_type, user_id, llm)
    IN  IF rule_result # NoResult THEN rule_result
        ELSE IF smart_result # NoResult THEN smart_result
        ELSE IF llm_result # NoResult THEN llm_result
        ELSE [category_id |-> None, categorisation_source |-> "UNCATEGORISED",
              confidence_score |-> None]

\* categorize_transaction with the inference result preferred to a user rule.
categorize_transaction_llm_first(user_id, description, amount, direction, transaction_type, account_id, llm) ==
    LET smart_result == categorize_with_smart_patterns(description, direction,
                                                       transaction_type)
        rule_result == categorize_with_rules(user_id, description, account_id)
        llm_result == categorize_with_llm(description, amount, direction,
                                          transaction_type, user_id, llm)
    IN  IF smart_result # NoResult THEN smart_result
        ELSE IF llm_result # NoResult THEN llm_result
        ELSE IF rule_result # NoResult THEN rule_result
        ELSE [category_id |-> None, categorisation_source |-> "UNCATEGORISED",
              confidence_score |-> None]

categorize_transaction(user_id, description, amount, direction, transaction_type, account_id, llm) ==
    LET smart_result == categorize_with_smart_patterns(description, direction,
                                                       transaction_type)
        rule_result == categorize_with_rules(user_id, description, account_id)
        llm_result == categorize_with_llm(description, amount, direction,
                                          transaction_type, user_id, llm)
    IN  IF smart_result # NoResult THEN smart_result
        ELSE IF rule_result # NoResult THEN rule_result
        ELSE IF llm_result # NoResult THEN llm_result
        ELSE [category_id |-> None, categorisation_source |-> "UNCATEGORISED",
              confidence_score |-> None]

\* How many times categorize_transaction posts to the inference endpoint: once
\* when neither the smart patterns nor the rules returned a result (lines
\* 153-170; categorize_with_llm holds one client.post, line 112), else never.
llm_posts(user_id, description, direction, transaction_type, account_id) ==
    IF categorize_with_smart_patterns(description, direction, transaction_type) # NoResult
    THEN 0
    ELSE IF categorize_with_rules(user_id, description, account_id) # NoResult
    THEN 0
    ELSE 1

\* check_duplicate with the account left out of the query.
check_duplicate_any_account(user_id, account_id, date, amount, description) ==
    \E t \in transactions :
        /\ t.user_id = user_id
        /\ t.date = date
        /\ t.amount = amount
        /\ t.description = description

\* A lookup that finds nothing.
check_duplicate_never(user_id, account_id, date, amount, description) == FALSE

\* A lookup that sees only the transactions of batches already on record, and
\* so none of the running import.
check_duplicate_persisted_batches(user_id, account_id, date, amount, description) ==
    \E t \in transactions :
        /\ t.user_id = user_id
        /\ t.account_id = account_id
        /\ t.date = date
        /\ t.amount = amount
        /\ t.description = description
        /\ \E b \in import_batches : b.id = t.import_batch_id

\* A lookup that also answers yes when the user has a successful import batch
\* for the account on record.
check_duplicate_by_history(user_id, account_id, date, amount, description) ==
    \/ \E t \in transactions :
          /\ t.user_id = user_id
          /\ t.account_id = account_id
          /\ t.date = date
          /\ t.amount = amount
          /\ t.description = description
    \/ \E b \in import_batches :
          /\ b.user_id = user_id
          /\ b.account_id = account_id
          /\ b.status = "SUCCESS"

\* db.transactions.find_one on the five fields
check_duplicate(user_id, account_id, date, amount, description) ==
    \E t \in transactions :
        /\ t.user_id = user_id
        /\ t.account_id = account_id
        /\ t.date = date
        /\ t.amount = amount
        /\ t.description = description

(***************************************************************************)
(* The stores the pipeline reads: users, accounts, categories, rules.      *)
(***************************************************************************)
Users == {"u1", "u2"}

Account(id, user_id, account_type) ==
    [id |-> id, user_id |-> user_id, account_type |-> account_type]

\* u1 owns a bank account and a credit card, u2 a bank account.
DefaultAccounts ==
    {Account("a1", "u1", "BANK"), Account("a2", "u1", "CREDIT_CARD"),
     Account("a3", "u2", "BANK")}

Category(id, name, is_system, user_id) ==
    [id |-> id, name |-> name, is_system |-> is_system, user_id |-> user_id]

\* The system categories the smart patterns name, one more system category,
\* and one category of each user.
DefaultCategories ==
    <<Category(CC_BILL_PAYMENT_ID, "Credit Card Bill Payment", TRUE, None),
      Category(REFUND_ID, "Refunds/Reimbursements", TRUE, None),
      Category(CASH_WITHDRAWAL_ID, "Cash Withdrawal", TRUE, None),
      Category("cat-food", "Food & Dining", TRUE, None),
      Category("cat-u1-dining", "Dining Out", FALSE, "u1"),
      Category("cat-u2-secret", "Secret", FALSE, "u2")>>

\* models/schemas.py Transaction, with the categorization result folded in.
Transaction(id, user_id, account_id, import_batch_id, date, time, description, amount, direction, transaction_type, cat) ==
    [id |-> id, user_id |-> user_id, account_id |-> account_id,
     import_batch_id |-> import_batch_id, date |-> date, time |-> time,
     description |-> description, amount |-> amount, direction |-> direction,
     transaction_type |-> transaction_type, category_id |-> cat.category_id,
     categorisation_source |-> cat.categorisation_source,
     confidence_score |-> cat.confidence_score]

CategoryRule(id, user_id, pattern, match_type, account_id, category_id, priority, is_active) ==
    [id |-> id, user_id |-> user_id, pattern |-> pattern, match_type |-> match_type,
     account_id |-> account_id, category_id |-> category_id, priority |-> priority,
     is_active |-> is_active]

\* Rule documents as create_rule and import_rules store them. import_rules
\* copies "pattern" without validating it, so a stored pattern can be null.
RuleUniverse ==
    {CategoryRule("r1", "u1", "ZOMATO", "CONTAINS", None, "cat-u1-dining", 10, TRUE),
     CategoryRule("r2", "u1", "upi", "STARTS_WITH", "a2", "cat-food", 20, TRUE),
     CategoryRule("r3", "u1", "wdl", "ENDS_WITH", None, "cat-food", 10, TRUE),
     CategoryRule("r4", "u1", "order", "ENDS_WITH", None, "cat-food", 40, FALSE),
     CategoryRule("r5", "u2", "zomato", "CONTAINS", None, "cat-u2-secret", 50, TRUE),
     CategoryRule("r6", "u1", "(zomato", "REGEX", None, "cat-food", 30, TRUE),
     CategoryRule("r7", "u1", "^SALARY", "REGEX", None, "cat-food", 10, TRUE),
     CategoryRule("r8", "u1", None, "CONTAINS", None, "cat-food", 5, TRUE)}

MaxRules == 2

\* Rule stores: up to MaxRules distinct rule documents, in any store order.
RuleStores ==
    UNION {{rs \in [1..n -> RuleUniverse] : \A i, j \in 1..n : i # j => rs[i] # rs[j]}
           : n \in 0..MaxRules}

Descriptions ==
    {"ZOMATO FOOD ORDER", "UPI-ZOMATO REFUND", "ATM CASH WDL", "SALARY CREDIT",
     "Payment Received"}

Directions == {"DEBIT", "CREDIT"}

LLMFailure(kind) == [kind |-> kind, category |-> None, confidence |-> None]

\* What the inference endpoint can do for one call.
LLMOutcomes ==
    {LLMFailure(k) : k \in {"connect_error", "timeout", "non_200", "bad_json",
                            "not_object", "empty"}}
    \cup {[kind |-> "ok", category |-> n, confidence |-> c] :
            n \in {"Food & Dining", "Dining Out", "Secret", "Groceries"},
            c \in {"0.8", None}}

(***************************************************************************)
(* SpecCat: one call of categorize_transaction, for every rule store,      *)
(* transaction and inference outcome of the universe.                      *)
(***************************************************************************)
Pending ==
    [category_id |-> None, categorisation_source |-> "PENDING", confidence_score |-> None]

NoProcs == <<>>

InitCat ==
    /\ transactions = {}
    /\ import_batches = {}
    /\ category_rules \in RuleStores
    /\ categories = DefaultCategories
    /\ accounts = DefaultAccounts
    /\ procs = NoProcs
    /\ nimports = 0
    /\ faults = 0
    /\ \E a \in DefaultAccounts, d \in Descriptions, dir \in Directions, l \in LLMOutcomes :
          call = [user_id |-> a.user_id, description |-> d, amount |-> Float(15000),
                  direction |-> dir, transaction_type |-> a.account_type,
                  account_id |-> a.id, llm |-> l]
    /\ ret = Pending

CatCall ==
    /\ ret = Pending
    /\ ret' = categorize_transaction(call.user_id, call.description, call.amount,
                                     call.direction, call.transaction_type,
                                     call.account_id, call.llm)
    /\ UNCHANGED <<transactions, import_batches, category_rules, categories, accounts,
                   procs, nimports, faults, call>>

NextCat == CatCall

SpecCat == InitCat /\ [][NextCat]_vars

(***************************************************************************)
(* Claims on the categorization waterfall (SpecCat).                       *)
(***************************************************************************)
Uncategorised ==
    [category_id |-> None, categorisation_source |-> "UNCATEGORISED",
     confidence_score |-> None]

\* What each strategy yields for the call of this state.
SmartOfCall ==
    categorize_with_smart_patterns(call.description, call.direction,
                                   call.transaction_type)

RuleOfCall == categorize_with_rules(call.user_id, call.description, call.account_id)

LlmOfCall ==
    categorize_with_llm(call.description, call.amount, call.direction,
                        call.transaction_type, call.user_id, call.llm)

\* C3: a call that returns gives the result of the first of smart pattern,
\* user rules, external inference that is non-empty, and the UNCATEGORISED
\* triple (None, UNCATEGORISED, None) when all three are empty.
C3_FirstNonEmptyStrategy ==
    (ret # Pending /\ ~IsRaised(ret)) =>
        /\ SmartOfCall # NoResult => ret = SmartOfCall
        /\ (SmartOfCall = NoResult /\ RuleOfCall # NoResult) => ret = RuleOfCall
        /\ (SmartOfCall = NoResult /\ RuleOfCall = NoResult /\ LlmOfCall # NoResult)
              => (ret = LlmOfCall /\ ret.categorisation_source = "LLM")
        /\ (SmartOfCall = NoResult /\ RuleOfCall = NoResult /\ LlmOfCall = NoResult)
              => (/\ ret.category_id = None
                  /\ ret.categorisation_source = "UNCATEGORISED"
                  /\ ret.confidence_score = None)

\* C3 witness: nothing matches and the inference endpoint is unreachable.
C3_Witness ==
    /\ ret = Uncategorised
    /\ call.llm.kind = "connect_error"
    /\ category_rules # <<>>

\* An active rule of the caller, in scope for the account, matches the description.
UserRuleMatchesCall ==
    \E i \in 1..Len(category_rules) :
        /\ category_rules[i].user_id = call.user_id
        /\ category_rules[i].is_active
        /\ category_rules[i].account_id \in {None, call.account_id}
        /\ rule_match(category_rules[i], lower(call.description)) = "matched"

C5_WaterfallNeverRaises == ~IsRaised(ret)

(***************************************************************************)
(* SpecStrat: one call of categorize_with_rules, of                        *)
(* categorize_with_smart_patterns or of bulk_categorize_by_rules, for      *)
(* every rule store and transaction of the universe.                       *)
(***************************************************************************)
\* Rule documents whose category names the rule, so that a result tells which
\* rule gave it: k2 and k7 are scoped to an account, k3 is inactive, k4 is
\* another user's, k5 is a malformed regular expression, k8 has a null pattern,
\* k9 has the match type EXACT, which import_rules stores as sent.
StratRuleUniverse ==
    {CategoryRule("k1", "u1", "ZOMATO", "CONTAINS", None, "cat-k1", 10, TRUE),
     CategoryRule("k2", "u1", "upi", "STARTS_WITH", "a2", "cat-k2", 20, TRUE),
     CategoryRule("k3", "u1", "order", "ENDS_WITH", None, "cat-k3", 40, FALSE),
     CategoryRule("k4", "u2", "zomato", "CONTAINS", None, "cat-k4", 50, TRUE),
     CategoryRule("k5", "u1", "(zomato", "REGEX", None, "cat-k5", 30, TRUE),
     CategoryRule("k6", "u1", "^UPI", "REGEX", None, "cat-k6", 10, TRUE),
     CategoryRule("k7", "u1", "Food", "CONTAINS", "a1", "cat-k7", 15, TRUE),
     CategoryRule("k8", "u1", None, "CONTAINS", None, "cat-k8", 5, TRUE),
     CategoryRule("k9", "u1", "Salary Credit", "EXACT", None, "cat-k9", 25, TRUE)}

\* Rule stores: up to MaxRules distinct rule documents, in any store order.
StratRuleStores ==
    UNION {{rs \in [1..n -> StratRuleUniverse] : \A i, j \in 1..n : i # j => rs[i] # rs[j]}
           : n \in 0..MaxRules}

StratPending == [strategy |-> None, result |-> Pending]

\* The stored transaction the call is about, not yet categorized.
StratTransaction(c) ==
    Transaction("t1", c.user_id, c.account_id, "b0", "2024-01-15", None, c.description,
                c.amount, c.direction, c.transaction_type, Uncategorised)

\* Lines 277-289 of routes/transactions.py: one rule against the trimmed,
\* lower-cased description: "matched", "no", or "raise" (rule["pattern"].strip()
\* on a pattern that is not a str).
bulk_rule_match(rule, description) ==
    IF rule.pattern = None THEN "raise"
    ELSE LET pattern == lower(strip(rule.pattern))
             match_type == rule.match_type
         IN  IF match_type = "CONTAINS" /\ Contains(pattern, description) THEN "matched"
             ELSE IF match_type = "STARTS_WITH" /\ startswith(description, pattern)
             THEN "matched"
             ELSE IF match_type = "ENDS_WITH" /\ endswith(description, pattern)
             THEN "matched"
             ELSE IF match_type = "EXACT" /\ description = pattern THEN "matched"
             ELSE "no"

\* Lines 277-303: for rule in rules: ... update and break on the first match.
\* The answer is the matching rule's category_id, NoResult, or what was raised.
RECURSIVE bulk_rules_loop(_, _)
bulk_rules_loop(rules, description) ==
    IF rules = <<>> THEN NoResult
    ELSE LET m == bulk_rule_match(Head(rules), description) IN
         IF m = "raise"
         THEN Raised("'NoneType' object has no attribute 'strip'")
         ELSE IF m = "matched"
         THEN [category_id |-> Head(rules).category_id, categorisation_source |-> "RULE",
               confidence_score |-> None]
         ELSE bulk_rules_loop(Tail(rules), description)

\* Line 261: the user's rules by descending priority.
bulk_rules(user_id) ==
    SortByPriority(SelectSeq(category_rules, LAMBDA r : r.user_id = user_id))

\* The transaction ids of a bulk request: the stored transaction, alone or
\* after an id that no transaction has.
BulkRequests == {<<"t1">>, <<"t0", "t1">>}

InitStrat ==
    /\ import_batches = {}
    /\ category_rules \in StratRuleStores
    /\ categories = DefaultCategories
    /\ accounts = DefaultAccounts
    /\ procs = NoProcs
    /\ nimports = 0
    /\ faults = 0
    /\ \E a \in DefaultAccounts, d \in Descriptions, dir \in Directions :
          call = [user_id |-> a.user_id, description |-> d, amount |-> Float(15000),
                  direction |-> dir, transaction_type |-> a.account_type,
                  account_id |-> a.id, llm |-> LLMFailure("timeout")]
    /\ transactions = {StratTransaction(call)}
    /\ ret = StratPending

\* routes/transactions.py 256-311: every listed transaction of the user is
\* matched against the user's rules by descending priority and takes the
\* category of the first match with source RULE; an id without a transaction is
\* passed over; what a rule raises leaves the handler.  result is the answer
\* of the rule loop for the stored transaction.
BulkCall(transaction_ids) ==
    /\ ret = StratPending
    /\ \E rules \in {bulk_rules(call.user_id)} :
       \E t \in transactions :
       \E r \in {IF rules = <<>>
                 \/ t.user_id # call.user_id
                 \/ \A k \in 1..Len(transaction_ids) : transaction_ids[k] # t.id
                 THEN NoResult
                 ELSE bulk_rules_loop(rules, lower(strip(t.description)))} :
          /\ transactions' =
                IF r = NoResult \/ IsRaised(r) THEN transactions
                ELSE (transactions \ {t}) \cup
                        {[t EXCEPT !.category_id = r.category_id,
                                   !.categorisation_source = "RULE"]}
          /\ ret' = [strategy |-> "bulk_categorize_by_rules", result |-> r]
    /\ UNCHANGED <<import_batches, category_rules, categories, accounts,
                   procs, nimports, faults, call>>

RulesCall ==
    /\ ret = StratPending
    /\ ret' = [strategy |-> "categorize_with_rules",
               result |-> categorize_with_rules(call.user_id, call.description,
                                                call.account_id)]
    /\ UNCHANGED <<transactions, import_batches, category_rules, categories, accounts,
                   procs, nimports, faults, call>>

SmartCall ==
    /\ ret = StratPending
    /\ ret' = [strategy |-> "categorize_with_smart_patterns",
               result |-> categorize_with_smart_patterns(call.description, call.direction,
                                                         call.transaction_type)]
    /\ UNCHANGED <<transactions, import_batches, category_rules, categories, accounts,
                   procs, nimports, faults, call>>

NextStrat ==
    \/ RulesCall
    \/ SmartCall
    \/ \E transaction_ids \in BulkRequests : BulkCall(transaction_ids)

SpecStrat == InitStrat /\ [][NextStrat]_vars

\* The rule's lower-cased pattern is a substring, prefix, suffix or regex hit
\* of the lower-cased description, by its match type.
RuleHits(rule, description) ==
    /\ rule.pattern # None
    /\ \/ rule.match_type = "CONTAINS" /\ Contains(lower(rule.pattern), lower(description))
       \/ rule.match_type = "STARTS_WITH"
            /\ startswith(lower(description), lower(rule.pattern))
       \/ rule.match_type = "ENDS_WITH" /\ endswith(lower(description), lower(rule.pattern))
       \/ rule.match_type = "REGEX"
            /\ ~re_error(lower(rule.pattern))
            /\ re_search(lower(rule.pattern), lower(description))

\* Positions in the store of the rules that are candidates for the call: of
\* the calling user, active, scoped to the call's account or to none.
Candidates ==
    {i \in 1..Len(category_rules) :
        /\ category_rules[i].user_id = call.user_id
        /\ category_rules[i].is_active
        /\ category_rules[i].account_id \in {None, call.account_id}}

MatchingCandidates == {i \in Candidates : RuleHits(category_rules[i], call.description)}

RulesReturned ==
    /\ ret.strategy = "categorize_with_rules"
    /\ ~IsRaised(ret.result)

\* C11: categorize_with_rules returns the category of a matching candidate
\* rule whose priority is at least that of every other matching candidate,
\* with source RULE and confidence 1.0, and returns nothing only when no
\* candidate matches.
C11_HighestPriorityMatchWins ==
    RulesReturned =>
        /\ ret.result # NoResult =>
              /\ ret.result.categorisation_source = "RULE"
              /\ ret.result.confidence_score = "1.0"
              /\ \E i \in MatchingCandidates :
                    /\ ret.result.category_id = category_rules[i].category_id
                    /\ \A j \in MatchingCandidates :
                          category_rules[j].priority <= category_rules[i].priority
        /\ ret.result = NoResult => MatchingCandidates = {}

\* C11 witness: two candidates match, the one of higher priority stored after
\* the other, and the call returned its category.
C11_Witness ==
    /\ RulesReturned
    /\ \E i, j \in MatchingCandidates :
          /\ i < j
          /\ category_rules[i].priority < category_rules[j].priority
          /\ ret.result.category_id = category_rules[j].category_id

\* C12: the category categorize_with_rules returns is never that of an
\* inactive rule, of another user's rule or of a rule scoped to a different
\* account: it is the category of a matching rule of the calling user that is
\* active and scoped to the call's account or to none.
C12_OnlyCandidateRulesApply ==
    (RulesReturned /\ ret.result # NoResult) =>
        /\ \E i \in Candidates : ret.result.category_id = category_rules[i].category_id
        /\ \A i \in 1..Len(category_rules) :
              i \notin Candidates =>
                  ret.result.category_id # category_rules[i].category_id

\* C12 witness: a rule outside the candidates (inactive, another user's or
\* scoped to another account) hits the description with a priority above the
\* candidate whose category is returned.
C12_Witness ==
    /\ RulesReturned
    /\ \E i \in 1..Len(category_rules) :
          /\ i \notin Candidates
          /\ RuleHits(category_rules[i], call.description)
          /\ \E j \in MatchingCandidates :
                /\ category_rules[j].priority < category_rules[i].priority
                /\ ret.result.category_id = category_rules[j].category_id

SmartReturned == ret.strategy = "categorize_with_smart_patterns"

\* The call's description holds one of the keywords, in any case.
HasKeyword(patterns) ==
    \E i \in 1..Len(patterns) : Contains(patterns[i], lower(call.description))

IsCardPayment ==
    /\ call.direction = "CREDIT"
    /\ call.transaction_type = "CREDIT_CARD"
    /\ HasKeyword(cc_payment_patterns)

\* C13: a CREDIT on a CREDIT_CARD account with a payment keyword gets the
\* bill-payment category at 1.0; otherwise a CREDIT with a refund keyword gets
\* the refund category at 0.9; a DEBIT with an ATM/cash keyword gets the
\* cash-withdrawal category at 0.95; otherwise there is no result. A DEBIT
\* never gets bill-payment or refund, a CREDIT never gets cash-withdrawal.
C13_SmartPatternTable ==
    SmartReturned =>
        /\ IsCardPayment =>
              /\ ret.result.category_id = CC_BILL_PAYMENT_ID
              /\ ret.result.confidence_score = "1.0"
        /\ (call.direction = "CREDIT" /\ ~IsCardPayment /\ HasKeyword(refund_patterns)) =>
              /\ ret.result.category_id = REFUND_ID
              /\ ret.result.confidence_score = "0.9"
        /\ (call.direction = "DEBIT" /\ HasKeyword(atm_patterns)) =>
              /\ ret.result.category_id = CASH_WITHDRAWAL_ID
              /\ ret.result.confidence_score = "0.95"
        /\ (/\ ~IsCardPayment
            /\ ~(call.direction = "CREDIT" /\ HasKeyword(refund_patterns))
            /\ ~(call.direction = "DEBIT" /\ HasKeyword(atm_patterns))) =>
              ret.result = NoResult
        /\ call.direction = "DEBIT" =>
              ret.result.category_id \notin {CC_BILL_PAYMENT_ID, REFUND_ID}
        /\ call.direction = "CREDIT" => ret.result.category_id # CASH_WITHDRAWAL_ID

\* C13 witness: a credit on a card account whose description holds a payment
\* keyword and a refund keyword got the bill-payment category.
C13_Witness ==
    /\ SmartReturned
    /\ IsCardPayment
    /\ HasKeyword(refund_patterns)
    /\ ret.result.category_id = CC_BILL_PAYMENT_ID

\* The bulk request has been answered.
BulkReturned == ret.strategy = "bulk_categorize_by_rules"

\* What categorize_with_rules returns for the description and account of the
\* stored transaction.
ImportTimeResult ==
    categorize_with_rules(call.user_id, call.description, call.account_id)

\* C30: bulk-categorize-by-rules assigns a category with source RULE to the
\* transaction exactly when categorize_with_rules, called with the
\* transaction's description and account, returns that category, and leaves
\* the transaction as it was when categorize_with_rules returns nothing.
C30_EnginesAgree ==
    BulkReturned =>
        \E r \in {ImportTimeResult} :
        \A t \in transactions :
            IF r # NoResult /\ ~IsRaised(r)
            THEN t.categorisation_source = "RULE" /\ t.category_id = r.category_id
            ELSE t = StratTransaction(call)

\* A rule that both engines read alike: active, for every account or for the
\* account of the transaction, of a match type other than REGEX and EXACT,
\* with a pattern that is a str without surrounding whitespace.
PlainRule(rule) ==
    /\ rule.is_active = TRUE
    /\ rule.account_id \in {None, call.account_id}
    /\ rule.match_type \in {"CONTAINS", "STARTS_WITH", "ENDS_WITH"}
    /\ rule.pattern # None

\* C30, where it holds: when every rule of the user is plain, the bulk engine
\* assigns the category that categorize_with_rules returns, or none when it
\* returns none.
C30_EnginesAgreeOnPlainRules ==
    (/\ BulkReturned
     /\ \A k \in 1..Len(category_rules) :
           category_rules[k].user_id = call.user_id =>
              /\ PlainRule(category_rules[k])
              /\ strip(category_rules[k].pattern) = category_rules[k].pattern
     /\ strip(call.description) = call.description) =>
        \E r \in {ImportTimeResult} :
        \A t \in transactions :
            IF r # NoResult
            THEN t.categorisation_source = "RULE" /\ t.category_id = r.category_id
            ELSE t = StratTransaction(call)

\* C30, the failing case reached: the user's only rule is inactive,
\* categorize_with_rules returns nothing for the transaction, and the bulk
\* request has given the transaction that rule's category with source RULE.
C30_InactiveRuleApplied ==
    /\ BulkReturned
    /\ Len(category_rules) = 1
    /\ category_rules[1].user_id = call.user_id
    /\ category_rules[1].is_active = FALSE
    /\ ImportTimeResult = NoResult
    /\ \E t \in transactions :
          /\ t.id = "t1"
          /\ t.categorisation_source = "RULE"
          /\ t.category_id = category_rules[1].category_id

(***************************************************************************)
(* SpecDup: one call of check_duplicate against a drawn transaction store. *)
(***************************************************************************)
\* A transaction document (models/schemas.py Transaction, as model_dump'ed).
DupDates == {"2024-01-15", "2024-01-16"}
DupAmounts == {Float(15000), Float(5000)}
DupDescriptions == {"ZOMATO FOOD ORDER", "zomato food order"}
DupAccounts == {"a1", "a2"}

\* The fields check_duplicate does not query: direction, time of day, category.
DupOtherFields ==
    {[direction |-> "DEBIT", time |-> None, cat |-> Uncategorised],
     [direction |-> "CREDIT", time |-> None, cat |-> Uncategorised],
     [direction |-> "DEBIT", time |-> "10:30:00",
      cat |-> [category_id |-> "cat-food", categorisation_source |-> "RULE",
               confidence_score |-> "1.0"]]}

DupTransactions ==
    {Transaction(<<u, a, d, amt, desc, o.direction, o.time>>, u, a, "seed", d, o.time,
                 desc, amt, o.direction, "BANK", o.cat) :
        u \in Users, a \in DupAccounts, d \in DupDates, amt \in DupAmounts,
        desc \in DupDescriptions, o \in DupOtherFields}

MaxStore == 1

\* Stores of at most MaxStore transactions.
DupStores ==
    UNION {{{f[i] : i \in 1..n} : f \in [1..n -> DupTransactions]} : n \in 0..MaxStore}

DupPending == [done |-> FALSE, is_dup |-> FALSE]

InitDup ==
    /\ transactions \in DupStores
    /\ import_batches = {}
    /\ category_rules = <<>>
    /\ categories = DefaultCategories
    /\ accounts = DefaultAccounts
    /\ procs = NoProcs
    /\ nimports = 0
    /\ faults = 0
    /\ \E u \in Users, a \in DupAccounts, d \in DupDates, amt \in DupAmounts,
          desc \in DupDescriptions :
          call = [user_id |-> u, account_id |-> a, date |-> d, amount |-> amt,
                  description |-> desc]
    /\ ret = DupPending

DupCall ==
    /\ ret = DupPending
    /\ ret' = [done |-> TRUE,
               is_dup |-> check_duplicate(call.user_id, call.account_id, call.date,
                                          call.amount, call.description)]
    /\ UNCHANGED <<transactions, import_batches, category_rules, categories, accounts,
                   procs, nimports, faults, call>>

NextDup == DupCall

SpecDup == InitDup /\ [][NextDup]_vars

\* The duplicate fingerprint of a stored transaction.
Fingerprint(t) == <<t.user_id, t.account_id, t.date, t.amount, t.description>>

\* C9: check_duplicate answers true exactly when some persisted transaction has
\* the call's user, account, date, amount and description; a transaction that
\* differs in one of the five never counts, and direction, time of day and
\* category are not compared.
C9_DuplicateIffFingerprintStored ==
    ret.done =>
        /\ ret.is_dup <=>
             (<<call.user_id, call.account_id, call.date, call.amount, call.description>>
                \in {Fingerprint(t) : t \in transactions})
        /\ (\A t \in transactions :
              \/ t.user_id # call.user_id
              \/ t.account_id # call.account_id
              \/ t.date # call.date
              \/ t.amount # call.amount
              \/ t.description # call.description) => ~ret.is_dup

\* C9 witness: the call is answered true on a stored transaction that carries
\* a time of day and a category.
C9_Witness ==
    /\ ret.done
    /\ ret.is_dup
    /\ \E t \in transactions :
          /\ Fingerprint(t) = <<call.user_id, call.account_id, call.date, call.amount,
                                call.description>>
          /\ t.time # None
          /\ t.category_id # None

(***************************************************************************)
(* SpecParse: each extractor applied to a drawn statement table.  A table  *)
(* is what the tabular reader hands the extractor: whether the bytes       *)
(* decoded, the column labels, and the rows of cells.                      *)
(***************************************************************************)
\* Amount cells: missing, numeric (zero, positive, negative), and texts with
\* separators, currency marks, blanks and non-numbers.
AmountCells ==
    {NaN, Num(0), Num(15000), Num(0 - 5000), Str("1,500.00"), Str("INR 20"), Str("abc"),
     Str("NAN"), Str("₹50"), Str(" "), Str("0.00")}

Table(columns, rows) == [decodable |-> TRUE, columns |-> columns, rows |-> rows]

Undecodable == [decodable |-> FALSE, columns |-> <<>>, rows |-> <<>>]

\* HDFC bank layout (CSV and spreadsheet).
HdfcBankTables ==
    {Table(<<"Date", "Narration", "Withdrawal Amt.", "Deposit Amt.">>,
           <<<<Str("15/01/24"), Str("UPI-ZOMATO"), w, d>>>>) : w, d \in AmountCells}

\* SBI layout.
SbiTables ==
    {Table(<<"Txn Date", "Description", "Debit", "Credit">>,
           <<<<Str("15-Jan-24"), Str("ATM WDL"), w, d>>>>) : w, d \in AmountCells}

\* Generic layouts: one signed amount column, or a debit/credit pair.
GenericTables ==
    {Table(<<"Date", "Description", "Amount">>,
           <<<<Str("15/01/2024"), Str("SALARY JAN"), a>>>>) : a \in AmountCells}
    \cup {Table(<<"Date", "Particulars", "Debit", "Credit">>,
                <<<<Str("15/01/2024"), Str("SALARY JAN"), w, d>>>>) : w, d \in AmountCells}

\* HDFC credit-card layout: a header row inside the sheet, then data rows; and
\* a sheet without header row, whose columns are found from the first data row.
HdfcCcTables ==
    {Table(<<"Unnamed: 0", "Unnamed: 1", "Unnamed: 2", "Unnamed: 3", "Unnamed: 4">>,
           <<<<Str("Transaction type"), Str("Date & Time"), Str("Description"),
               Str("AMT"), Str("Debit / Credit")>>,
             <<Str("Domestic"), Str("15/01/2024 | 10:30"), Str("ZOMATO ORDER"), a, dc>>>>) :
        a \in AmountCells, dc \in {NaN, Str("Cr")}}
    \cup {Table(<<"Unnamed: 0", "Unnamed: 1", "Unnamed: 2", "Unnamed: 3">>,
                <<<<Str("Domestic"), Str("15/01/2024 10:30"),
                    Str("ZOMATO ONLINE ORDER BANGALORE"), a>>>>) :
             a \in {Str("1,500.00"), Str("15.01.2024"), Num(15000)}}

\* Decodable tables without a date column, or without a description column.
ColumnlessTables ==
    {Table(<<"Narration", "Debit", "Credit">>,
           <<<<Str("UPI-ZOMATO"), Num(15000), NaN>>>>),
     Table(<<"Date", "Debit", "Credit">>,
           <<<<Str("15/01/24"), Num(15000), NaN>>>>),
     Table(<<"Txn Date", "Debit", "Credit">>,
           <<<<Str("15-Jan-24"), Num(15000), NaN>>>>)}

\* Indicator cells: missing, spellings of credit, and other texts.
IndicatorCells ==
    {NaN, Str("Cr"), Str(" CR "), Str("credit"), Str("C"), Str("+"), Str("Dr"),
     Str("debit"), Str("x")}

\* Generic layout with one amount column and a Dr/Cr indicator column.
IndicatorTables ==
    {Table(<<"Date", "Description", "Amount", "Dr/Cr">>,
           <<<<Str("15/01/2024"), Str("SALARY JAN"), a, ind>>>>) :
        a \in {Num(5000), Num(0 - 5000)}, ind \in IndicatorCells}

\* Credit-card sheets with spellings of the Dr/Cr cell under a header row that
\* names the indicator column, and under one that does not.
CcIndicatorTables ==
    {Table(<<"Unnamed: 0", "Unnamed: 1", "Unnamed: 2", "Unnamed: 3", "Unnamed: 4">>,
           <<<<Str("Transaction type"), Str("Date & Time"), Str("Description"),
               Str("AMT"), Str(h)>>,
             <<Str("Domestic"), Str("15/01/2024 | 10:30"), Str("ZOMATO ORDER"),
               Num(15000), dc>>>>) :
        h \in {"Debit / Credit", "Remarks"},
        dc \in {NaN, Str("Cr"), Str(" cR "), Str("CR"), Str("Dr"), Str("Credit")}}

Tables ==
    {Undecodable} \cup HdfcBankTables \cup SbiTables \cup GenericTables \cup HdfcCcTables
    \cup ColumnlessTables \cup IndicatorTables \cup CcIndicatorTables

ParsePending == [parser |-> None, result |-> Returned(<<>>)]

InitParse ==
    /\ transactions = {}
    /\ import_batches = {}
    /\ category_rules = <<>>
    /\ categories = DefaultCategories
    /\ accounts = DefaultAccounts
    /\ procs = NoProcs
    /\ nimports = 0
    /\ faults = 0
    /\ call \in Tables
    /\ ret = ParsePending

ParseHdfcCcExcel ==
    /\ ret = ParsePending
    /\ ret' = [parser |-> "parse_hdfc_cc_excel", result |-> parse_hdfc_cc_excel(call)]
    /\ UNCHANGED <<transactions, import_batches, category_rules, categories, accounts,
                   procs, nimports, faults, call>>

ParseHdfcBankExcel ==
    /\ ret = ParsePending
    /\ ret' = [parser |-> "parse_hdfc_bank_excel", result |-> parse_hdfc_bank_excel(call)]
    /\ UNCHANGED <<transactions, import_batches, category_rules, categories, accounts,
                   procs, nimports, faults, call>>

ParseGenericExcel ==
    /\ ret = ParsePending
    /\ ret' = [parser |-> "parse_generic_excel", result |-> parse_generic_excel(call, "OTHER")]
    /\ UNCHANGED <<transactions, import_batches, category_rules, categories, accounts,
                   procs, nimports, faults, call>>

ParseHdfcBankCsv ==
    /\ ret = ParsePending
    /\ ret' = [parser |-> "parse_hdfc_bank_csv", result |-> parse_hdfc_bank_csv(call)]
    /\ UNCHANGED <<transactions, import_batches, category_rules, categories, accounts,
                   procs, nimports, faults, call>>

ParseSbiCsv ==
    /\ ret = ParsePending
    /\ ret' = [parser |-> "parse_sbi_csv", result |-> parse_sbi_csv(call)]
    /\ UNCHANGED <<transactions, import_batches, category_rules, categories, accounts,
                   procs, nimports, faults, call>>

ParseGenericCsv ==
    /\ ret = ParsePending
    /\ ret' = [parser |-> "parse_generic_csv", result |-> parse_generic_csv(call, "OTHER")]
    /\ UNCHANGED <<transactions, import_batches, category_rules, categories, accounts,
                   procs, nimports, faults, call>>

NextParse ==
    \/ ParseHdfcCcExcel
    \/ ParseHdfcBankExcel
    \/ ParseGenericExcel
    \/ ParseHdfcBankCsv
    \/ ParseSbiCsv
    \/ ParseGenericCsv

SpecParse == InitParse /\ [][NextParse]_vars

\* The records an extractor emitted.
Emitted == {ret.result.records[i] : i \in 1..Len(ret.result.records)}

\* C10: every record emitted by any extractor has amount > 0.
C10_EmittedAmountPositive == \A r \in Emitted : gt0(r.amount)

\* C10, the extractors other than the credit-card one: every emitted record has
\* amount > 0.
C10_PositiveOutsideHdfcCc ==
    ret.parser # "parse_hdfc_cc_excel" => \A r \in Emitted : gt0(r.amount)

\* The credit-card extractor emitted a record whose amount is not a number.
C10_NaNEmitted ==
    /\ ret.parser = "parse_hdfc_cc_excel"
    /\ \E r \in Emitted : r.amount.nan

\* The table has no column named for a date, or none named for a description.
LacksDateOrDescription(t) ==
    /\ t.decodable
    /\ \/ first_col(t.columns, {"date", "txn", "transaction"}) = 0
       \/ first_col(t.columns, {"narration", "description", "particulars", "details",
                                "memo"}) = 0

\* C14: every extractor returns an empty list, without raising, for a
\* decodable table in which the date or the description column cannot be
\* located.
C14_MissingColumnsGiveNoRecords ==
    (ret.parser # None /\ call \in ColumnlessTables /\ LacksDateOrDescription(call)) =>
        /\ ret.result.error = ""
        /\ ret.result.records = <<>>

\* C14, the extractors other than the SBI one: an empty list, without raising.
C14_EmptyOutsideSbi ==
    (ret.parser \notin {None, "parse_sbi_csv"} /\ call \in ColumnlessTables) =>
        /\ ret.result.error = ""
        /\ ret.result.records = <<>>

\* The SBI extractor raised on a decodable table that has no date column.
C14_SbiRaised ==
    /\ ret.parser = "parse_sbi_csv"
    /\ call \in ColumnlessTables
    /\ LacksDateOrDescription(call)
    /\ first_col(call.columns, {"date"}) = 0
    /\ ret.result.error # ""

\* The credit-card extractor ran on a decodable sheet none of whose first
\* ScanRows rows is a header row, so that the fallback position was used.
CcFallbackUsed ==
    /\ ret.parser = "parse_hdfc_cc_excel"
    /\ call.decodable
    /\ call.rows # <<>>
    /\ cc_header_from(call.rows, 1, Min(ScanRows, Len(call.rows))) = 0

\* C15: when no header row is found the credit-card extractor still returns a
\* (possibly empty) list and never raises, whatever the first data row holds.
C15_FallbackNeverRaises == CcFallbackUsed => ret.result.error = ""

\* C15, the sheets whose first data row holds no cell of digits with more than
\* one point: the extractor returns.
C15_FallbackReturnsOnNumbers ==
    (CcFallbackUsed
       /\ \A r \in 1..Len(call.rows) : \A i \in 1..Len(call.rows[r]) :
             count(cell_str(call.rows[r][i]), ".") <= 1)
        => ret.result.error = ""

\* The extractor raised from the fallback position: the first data row holds
\* a cell of digits and points that float() rejects.
C15_FallbackRaised ==
    /\ CcFallbackUsed
    /\ ret.result.error # ""
    /\ \E i \in 1..Len(call.rows[1]) : cell_str(call.rows[1][i]) = "15.01.2024"

\* The tables of the layout each separate-column extractor is written for.
SeparateColumnTables(parser) ==
    IF parser \in {"parse_hdfc_bank_csv", "parse_hdfc_bank_excel"} THEN HdfcBankTables
    ELSE IF parser = "parse_sbi_csv" THEN SbiTables
    ELSE IF parser \in {"parse_generic_csv", "parse_generic_excel"}
    THEN {t \in GenericTables : Len(t.columns) = 4}
    ELSE {}

\* Cells that hold a non-zero number, with the magnitude each stands for.
NonZeroNumbers ==
    {<<Num(15000), Float(15000)>>, <<Num(0 - 5000), Float(5000)>>,
     <<Str("1,500.00"), Float(150000)>>}

\* The one row of the table has cell number n in its debit column and an empty
\* credit column, or the other way round.
OnlyDebit(t, n) == t.rows[1][3] = n[1] /\ t.rows[1][4] = NaN

OnlyCredit(t, n) == t.rows[1][4] = n[1] /\ t.rows[1][3] = NaN

\* C16: in every extractor with separate debit and credit columns, a row with a
\* non-zero number in the debit cell and an empty credit cell yields one record
\* with amount |debit| and direction DEBIT, and a row with a non-zero number in
\* the credit cell and an empty debit cell yields amount |credit| and CREDIT.
C16_SeparateColumns ==
    call \in SeparateColumnTables(ret.parser) =>
        \A n \in NonZeroNumbers :
            /\ OnlyDebit(call, n) =>
                  /\ Len(ret.result.records) = 1
                  /\ ret.result.records[1].amount = n[2]
                  /\ ret.result.records[1].direction = "DEBIT"
            /\ OnlyCredit(call, n) =>
                  /\ Len(ret.result.records) = 1
                  /\ ret.result.records[1].amount = n[2]
                  /\ ret.result.records[1].direction = "CREDIT"

\* C16 witness: the SBI extractor made a CREDIT record of magnitude 50.00 from
\* a row with an empty debit cell and -50.00 in the credit cell.
C16_Witness ==
    /\ ret.parser = "parse_sbi_csv"
    /\ call \in SbiTables
    /\ OnlyCredit(call, <<Num(0 - 5000), Float(5000)>>)
    /\ Len(ret.result.records) = 1
    /\ ret.result.records[1].amount = Float(5000)
    /\ ret.result.records[1].direction = "CREDIT"

\* parse_generic_csv ran on a table with one amount column and no indicator
\* column, or on one with an indicator column.
SignCall == ret.parser = "parse_generic_csv" /\ call \in GenericTables /\ Len(call.columns) = 3

IndicatorCall == ret.parser = "parse_generic_csv" /\ call \in IndicatorTables

\* Amount cells with a non-zero number, the magnitude and whether it is negative.
SignedNumbers ==
    {<<Num(15000), Float(15000), FALSE>>, <<Num(0 - 5000), Float(5000), TRUE>>,
     <<Str("1,500.00"), Float(150000), FALSE>>}

\* C17: without an indicator column, parse_generic_csv gives a row resolved
\* from the single amount column the direction CREDIT when the cell is
\* negative and DEBIT when it is not, and stores the absolute value.
C17_SignGivesDirection ==
    SignCall =>
        /\ \A n \in SignedNumbers :
              call.rows[1][3] = n[1] =>
                  /\ Len(ret.result.records) = 1
                  /\ ret.result.records[1].amount = n[2]
                  /\ ret.result.records[1].direction = (IF n[3] THEN "CREDIT" ELSE "DEBIT")
        /\ \A i \in 1..Len(ret.result.records) : gt0(ret.result.records[i].amount)

\* C17 witness: the cell -50.00 gave amount 50.00, CREDIT.
C17_Witness ==
    /\ SignCall
    /\ call.rows[1][3] = Num(0 - 5000)
    /\ Len(ret.result.records) = 1
    /\ ret.result.records[1].amount = Float(5000)
    /\ ret.result.records[1].direction = "CREDIT"

\* The indicator cells that mean credit once trimmed and lower-cased.
CreditIndicators == {Str("Cr"), Str(" CR "), Str("credit"), Str("C"), Str("+")}

\* C18: when an indicator column exists, a row resolved from the single
\* amount column is CREDIT if and only if its indicator cell is one of cr,
\* credit, c, + (trimmed, any case) and DEBIT for anything else, whatever the
\* sign of the amount.
C18_IndicatorDecides ==
    IndicatorCall =>
        /\ Len(ret.result.records) = 1
        /\ ret.result.records[1].direction = "CREDIT" <=> call.rows[1][4] \in CreditIndicators

\* C18, the rows whose indicator cell is not empty: the cell decides.
C18_FilledIndicatorDecides ==
    (IndicatorCall /\ notna(call.rows[1][4])) =>
        /\ Len(ret.result.records) = 1
        /\ ret.result.records[1].amount = Float(5000)
        /\ ret.result.records[1].direction = "CREDIT" <=> call.rows[1][4] \in CreditIndicators

\* An indicator column exists, the row's indicator cell is empty, and the
\* negative amount made the record a CREDIT.
C18_SignDecidedUnderIndicatorColumn ==
    /\ IndicatorCall
    /\ call.rows[1][4] = NaN
    /\ call.rows[1][3] = Num(0 - 5000)
    /\ Len(ret.result.records) = 1
    /\ ret.result.records[1].direction = "CREDIT"

\* The credit-card extractor ran on a sheet of CcIndicatorTables; the header
\* row names the indicator column or not.
CcIndicatorCall == ret.parser = "parse_hdfc_cc_excel" /\ call \in CcIndicatorTables

IndicatorColumnNamed == call.rows[1][5] = Str("Debit / Credit")

\* The Dr/Cr cells that read cr once trimmed and lower-cased.
CrCells == {Str("Cr"), Str(" cR "), Str("CR")}

\* C19: the credit-card extractor gives a row the direction CREDIT if and only
\* if an indicator column was detected and the row's cell in it is Cr
\* (trimmed, any case); an empty cell, Dr, any other text, or no detected
\* indicator column gives DEBIT.
C19_CrCellGivesCredit ==
    CcIndicatorCall =>
        /\ Len(ret.result.records) = 1
        /\ ret.result.records[1].direction \in {"CREDIT", "DEBIT"}
        /\ ret.result.records[1].direction = "CREDIT" <=>
              (IndicatorColumnNamed /\ call.rows[2][5] \in CrCells)

\* C19 witness: the cell " cR " under a named indicator column gave CREDIT.
C19_Witness ==
    /\ CcIndicatorCall
    /\ IndicatorColumnNamed
    /\ call.rows[2][5] = Str(" cR ")
    /\ Len(ret.result.records) = 1
    /\ ret.result.records[1].direction = "CREDIT"

\* Cells that hold a positive number, with the amount each stands for, and
\* cells that hold zero.
PositiveNumbers == {<<Num(15000), Float(15000)>>, <<Str("1,500.00"), Float(150000)>>}

ZeroCells == {Num(0), Str("0.00")}

\* The extractor made one record of the amount and direction given.
OneRecord(amount, direction) ==
    /\ ret.result.error = ""
    /\ Len(ret.result.records) = 1
    /\ ret.result.records[1].amount = amount
    /\ ret.result.records[1].direction = direction

\* C29: every extractor with separate debit and credit columns makes one
\* record of a row whose debit cell holds a positive amount and whose credit
\* cell holds zero, with that amount and DEBIT, and of a row whose credit cell
\* holds a positive amount and whose debit cell holds zero, with that amount
\* and CREDIT.
C29_ZeroInOtherColumn ==
    call \in SeparateColumnTables(ret.parser) =>
        \A p \in PositiveNumbers : \A z \in ZeroCells :
            /\ (call.rows[1][3] = p[1] /\ call.rows[1][4] = z) => OneRecord(p[2], "DEBIT")
            /\ (call.rows[1][4] = p[1] /\ call.rows[1][3] = z) => OneRecord(p[2], "CREDIT")

\* C29, what holds instead: a positive debit beside a zero credit gives one
\* DEBIT record in parse_sbi_csv and parse_generic_csv and no record in the
\* other three; a positive credit beside a zero debit gives one CREDIT record
\* in all but parse_sbi_csv, which gives none.
C29_ZeroInOtherColumnByExtractor ==
    call \in SeparateColumnTables(ret.parser) =>
        \A p \in PositiveNumbers : \A z \in ZeroCells :
            /\ (call.rows[1][3] = p[1] /\ call.rows[1][4] = z) =>
                  IF ret.parser \in {"parse_sbi_csv", "parse_generic_csv"}
                  THEN OneRecord(p[2], "DEBIT")
                  ELSE ret.result.error = "" /\ ret.result.records = <<>>
            /\ (call.rows[1][4] = p[1] /\ call.rows[1][3] = z) =>
                  IF ret.parser # "parse_sbi_csv"
                  THEN OneRecord(p[2], "CREDIT")
                  ELSE ret.result.error = "" /\ ret.result.records = <<>>

\* C29, the failing case reached: parse_hdfc_bank_csv returned no record for
\* the row with 150.00 in the debit cell and 0 in the credit cell.
C29_DebitBesideZeroCreditDropped ==
    /\ ret.parser = "parse_hdfc_bank_csv"
    /\ call \in SeparateColumnTables(ret.parser)
    /\ call.rows[1][3] = Num(15000)
    /\ call.rows[1][4] = Num(0)
    /\ ret.result.error = ""
    /\ ret.result.records = <<>>

(***************************************************************************)
(* Spec: concurrent runs of import_transactions                            *)
(* (routes/transactions.py, lines 36-146).  A run gives way to other runs  *)
(* at each await, so there is one step per awaited operation:              *)
(*   Start           36-51   the batch is created, file.read() is awaited  *)
(*   ReadAndParse    51-83   the extractor runs, the account is asked for  *)
(*   FindAccount     83-87   the account is found or not                   *)
(*   CheckDuplicate  88-95   check_duplicate for the current record        *)
(*   Categorize      97-116  categorize_transaction for the current record *)
(*   Insert          118-122 the transaction is inserted                   *)
(*   PersistBatch    124-137 the batch is inserted, the summary returned   *)
(*   StoreFault      139-146 an awaited store operation raises             *)
(* The except block (139-146) is part of the step that raises.  The store  *)
(* is taken to accept the except block's own insert of the batch.          *)
(***************************************************************************)
Workers == {1, 2}

MaxImports == 2
MaxFaults == 1

\* models/schemas.py ImportBatch, as constructed at lines 43-48.
ImportBatch(id, user_id, account_id, data_source, original_file_name) ==
    [id |-> id, user_id |-> user_id, account_id |-> account_id,
     data_source |-> data_source, original_file_name |-> original_file_name,
     total_rows |-> 0, success_count |-> 0, error_count |-> 0, duplicate_count |-> 0,
     status |-> "PENDING", error_log |-> None]

NoBatch == ImportBatch(None, None, None, None, None)

NoAccount == Account(None, None, None)

\* An uploaded file: its name, the data source chosen for it and what the
\* tabular reader makes of its bytes.
Upload(filename, data_source, content) ==
    [filename |-> filename, data_source |-> data_source, content |-> content]

BankColumns == <<"Date", "Narration", "Withdrawal Amt.", "Deposit Amt.">>

ZomatoRow == <<Str("15/01/24"), Str("UPI-ZOMATO"), Num(15000), NaN>>

SalaryRow == <<Str("16/01/24"), Str("SALARY JAN"), NaN, Num(500000)>>

\* A two-record statement, a statement that repeats one record, a file no
\* encoding decodes, a spreadsheet whose only row has a zero amount, and a
\* credit-card sheet whose amount cell reads NAN.
Uploads ==
    {Upload("jan.csv", "HDFC_BANK", Table(BankColumns, <<SalaryRow, ZomatoRow>>)),
     Upload("twice.csv", "HDFC_BANK", Table(BankColumns, <<ZomatoRow, ZomatoRow>>)),
     Upload("broken.csv", "HDFC_BANK", Undecodable),
     Upload("zero.xlsx", "GENERIC_CSV",
            Table(<<"Date", "Particulars", "Debit", "Credit">>,
                  <<<<Str("15/01/2024"), Str("OPENING BALANCE"), Num(0), NaN>>>>)),
     Upload("card.xls", "HDFC_CC",
            Table(<<"Unnamed: 0", "Unnamed: 1", "Unnamed: 2", "Unnamed: 3", "Unnamed: 4">>,
                  <<<<Str("Transaction type"), Str("Date & Time"), Str("Description"),
                      Str("AMT"), Str("Debit / Credit")>>,
                    <<Str("Domestic"), Str("15/01/2024 | 10:30"), Str("ZOMATO ORDER"),
                      Str("NAN"), NaN>>>>))}

UploadOf(filename) == CHOOSE u \in Uploads : u.filename = filename

\* The requests of user u1: files into the own bank account a1 and the own
\* card account a2, and one into a3, which is another user's account.
ImportRequests ==
    {[user_id |-> "u1", account_id |-> r[1], filename |-> r[2]] :
        r \in {<<"a1", "jan.csv">>, <<"a2", "jan.csv">>, <<"a1", "twice.csv">>,
               <<"a1", "broken.csv">>, <<"a1", "zero.xlsx">>, <<"a2", "card.xls">>,
               <<"a3", "jan.csv">>}}

\* The rules of u1 during the imports: a keyword rule, a malformed regular
\* expression, and a rule scoped to a2 that import_rules stored with a null
\* pattern.
ImportRules ==
    <<CategoryRule("r1", "u1", "ZOMATO", "CONTAINS", None, "cat-u1-dining", 10, TRUE),
      CategoryRule("r6", "u1", "(zomato", "REGEX", None, "cat-food", 30, TRUE),
      CategoryRule("r8", "u1", None, "CONTAINS", "a2", "cat-food", 5, TRUE)>>

\* What the inference endpoint does for a record during an import.
ImportLLMOutcomes ==
    {LLMFailure("timeout"), LLMFailure("non_200"),
     [kind |-> "ok", category |-> "Food & Dining", confidence |-> "0.8"]}

\* The response body of a finished import (lines 130-137).
Summary(batch) ==
    [batch_id |-> batch.id, total_rows |-> batch.total_rows,
     success_count |-> batch.success_count, duplicate_count |-> batch.duplicate_count,
     error_count |-> batch.error_count, status |-> batch.status]

Response(status_code, detail, summary) ==
    [status_code |-> status_code, detail |-> detail, summary |-> summary]

NoResponse == Response(0, None, Summary(NoBatch))

\* The locals of a request slot. repeat is history: whether, when the request
\* started, an import of the same file by the same user into the same account
\* had run to its end without an exception.
\* The posts to the inference endpoint for the record of the current
\* iteration: how many, for which record, and what the endpoint did.
LLMCall(n, i, kind) == [n |-> n, i |-> i, kind |-> kind]

NoLLMCall == LLMCall(0, 0, None)

Idle ==
    [pc |-> "idle", user_id |-> None, account_id |-> None, filename |-> None,
     batch |-> NoBatch, parsed_txns |-> <<>>, i |-> 0, account |-> NoAccount,
     cat_result |-> Pending, response |-> NoResponse, repeat |-> FALSE,
     is_dup |-> FALSE, llm_call |-> NoLLMCall]

Init ==
    /\ transactions = {}
    /\ import_batches = {}
    /\ category_rules = ImportRules
    /\ categories = DefaultCategories
    /\ accounts = DefaultAccounts
    /\ procs = [w \in Workers |-> Idle]
    /\ nimports = 0
    /\ faults = 0
    /\ call = None
    /\ ret = None

\* What the extractor of its data source makes of each upload (lines 57-79).
\* The extractors read nothing but the file, so each result is computed once.
ParsedUploads ==
    [f \in {u.filename : u \in Uploads} |->
        parse_file(UploadOf(f).content, f, UploadOf(f).data_source)]

\* A lookup by account id alone.
find_account_any_user(user_id, account_id) == {a \in accounts : a.id = account_id}

\* db.accounts.find_one({"id": account_id, "user_id": user_id}), as the set
\* of documents that answer the query.
find_account(user_id, account_id) ==
    {a \in accounts : a.id = account_id /\ a.user_id = user_id}

\* A status rule that reports an import without a success as PARTIAL.
batch_status_partial(success_count) == IF success_count > 0 THEN "SUCCESS" ELSE "PARTIAL"

\* Line 124: the status of a batch whose row loop has ended.
batch_status(success_count) == IF success_count > 0 THEN "SUCCESS" ELSE "FAILED"

\* An except block that also forgets the successes counted so far.
on_exception_reset(batch, text) ==
    [batch EXCEPT !.status = "FAILED", !.error_log = text, !.success_count = 0]

\* Lines 141-142: what the except block makes of the batch.
on_exception(batch, text) == [batch EXCEPT !.status = "FAILED", !.error_log = text]

\* A transaction that stores the description in lower case.
new_transaction_lower(batch, parsed_txn, account, cat_result, k) ==
    Transaction(batch.id \o "-" \o ToString(k), batch.user_id, batch.account_id, batch.id,
                parsed_txn.date, parsed_txn.time, lower(parsed_txn.description),
                parsed_txn.amount, parsed_txn.direction, account.account_type, cat_result)

\* Lines 97-116: the transaction built from a parsed record, the account and
\* the categorization result; k is the position of the record, which stands
\* for the fresh uuid.
new_transaction(batch, parsed_txn, account, cat_result, k) ==
    Transaction(batch.id \o "-" \o ToString(k), batch.user_id, batch.account_id, batch.id,
                parsed_txn.date, parsed_txn.time, parsed_txn.description,
                parsed_txn.amount, parsed_txn.direction, account.account_type, cat_result)

\* A row loop that ends one record early.
after_record_early(i, n) == IF i + 1 >= n THEN "persist" ELSE "check"

\* Where the row loop goes after record i of n.
after_record(i, n) == IF i + 1 > n THEN "persist" ELSE "check"

\* Lines 139-146: the batch is marked FAILED with the exception text, inserted,
\* and the request answers 500.
Fail(w, text) ==
    \E b \in {on_exception(procs[w].batch, text)} :
        /\ procs' = [procs EXCEPT ![w].pc = "raised", ![w].batch = b,
                                  ![w].response =
                                      Response(500, "Import failed: " \o text,
                                               Summary(NoBatch))]
        /\ import_batches' = import_batches \cup {b}

\* A slot is free before its first request and once its request has answered.
Free(w) == procs[w].pc \in {"idle", "returned", "raised"}

\* Lines 36-51: a request arrives at the lowest free slot; the batch is created.
Start(w, req) ==
    /\ Free(w)
    /\ \A v \in Workers : v < w => ~Free(v)
    /\ nimports < MaxImports
    /\ nimports' = nimports + 1
    /\ procs' = [procs EXCEPT ![w] =
          [Idle EXCEPT !.pc = "read",
                       !.user_id = req.user_id,
                       !.account_id = req.account_id,
                       !.filename = req.filename,
                       !.batch = ImportBatch("b" \o ToString(nimports + 1), req.user_id,
                                             req.account_id,
                                             UploadOf(req.filename).data_source,
                                             req.filename),
                       !.repeat = \E b \in import_batches :
                                      /\ b.user_id = req.user_id
                                      /\ b.account_id = req.account_id
                                      /\ b.original_file_name = req.filename
                                      /\ b.error_log = None]]
    /\ UNCHANGED <<transactions, import_batches, category_rules, categories, accounts,
                   faults, call, ret>>

\* Lines 51-83: the file is read and the extractor of the data source runs; an
\* extractor that raises ends the request in the except block.
ReadAndParse(w) ==
    /\ procs[w].pc = "read"
    /\ \E u \in {UploadOf(procs[w].filename)} :
       \E r \in {ParsedUploads[u.filename]} :
          IF r.error # ""
          THEN Fail(w, r.error)
          ELSE /\ procs' = [procs EXCEPT ![w].pc = "account",
                                         ![w].parsed_txns = r.records,
                                         ![w].batch.total_rows = Len(r.records)]
               /\ UNCHANGED import_batches
    /\ UNCHANGED <<transactions, category_rules, categories, accounts, nimports, faults,
                   call, ret>>

\* Lines 83-87: the account lookup answers; without an account of the user the
\* HTTPException(404) is raised inside the try and caught by the except block.
FindAccount(w) ==
    /\ procs[w].pc = "account"
    /\ \E found \in {find_account(procs[w].user_id, procs[w].account_id)} :
          IF found = {}
          THEN Fail(w, "404: Account not found")
          ELSE /\ procs' = [procs EXCEPT
                     ![w].account = CHOOSE a \in found : TRUE,
                     ![w].i = 1,
                     ![w].pc = after_record(0, Len(procs[w].parsed_txns))]
               /\ UNCHANGED import_batches
    /\ UNCHANGED <<transactions, category_rules, categories, accounts, nimports, faults,
                   call, ret>>

\* A duplicate check that attaches the stored transactions it matched to the
\* running batch.
CheckDuplicate_relinking(w) ==
    /\ procs[w].pc = "check"
    /\ \E t \in {procs[w].parsed_txns[procs[w].i]} :
       \E hit \in {{u \in transactions :
                       /\ u.user_id = procs[w].user_id
                       /\ u.account_id = procs[w].account_id
                       /\ u.date = t.date
                       /\ u.amount = t.amount
                       /\ u.description = t.description}} :
          IF hit # {}
          THEN /\ procs' = [procs EXCEPT
                     ![w].is_dup = TRUE,
                     ![w].llm_call = NoLLMCall,
                     ![w].batch.duplicate_count = @ + 1,
                     ![w].i = @ + 1,
                     ![w].pc = after_record(procs[w].i, Len(procs[w].parsed_txns))]
               /\ transactions' = (transactions \ hit) \cup
                     {[u EXCEPT !.import_batch_id = procs[w].batch.id] : u \in hit}
          ELSE /\ procs' = [procs EXCEPT ![w].is_dup = FALSE,
                                         ![w].llm_call = NoLLMCall,
                                         ![w].pc = "categorize"]
               /\ UNCHANGED transactions
    /\ UNCHANGED <<import_batches, category_rules, categories, accounts,
                   nimports, faults, call, ret>>

\* Lines 88-95: check_duplicate answers for the current record; a duplicate is
\* counted and skipped.
CheckDuplicate(w) ==
    /\ procs[w].pc = "check"
    /\ \E t \in {procs[w].parsed_txns[procs[w].i]} :
          IF check_duplicate(procs[w].user_id, procs[w].account_id, t.date, t.amount,
                             t.description)
          THEN procs' = [procs EXCEPT
                   ![w].is_dup = TRUE,
                   ![w].llm_call = NoLLMCall,
                   ![w].batch.duplicate_count = @ + 1,
                   ![w].i = @ + 1,
                   ![w].pc = after_record(procs[w].i, Len(procs[w].parsed_txns))]
          ELSE procs' = [procs EXCEPT ![w].is_dup = FALSE,
                                      ![w].llm_call = NoLLMCall,
                                      ![w].pc = "categorize"]
    /\ UNCHANGED <<transactions, import_batches, category_rules, categories, accounts,
                   nimports, faults, call, ret>>

\* Lines 97-116: the transaction is built and categorize_transaction answers;
\* what it raises ends the request in the except block.
Categorize(w, llm) ==
    /\ procs[w].pc = "categorize"
    /\ \E t \in {procs[w].parsed_txns[procs[w].i]} :
       \E r \in {categorize_transaction(procs[w].user_id, t.description, t.amount,
                                        t.direction, procs[w].account.account_type,
                                        procs[w].account_id, llm)} :
       \E n \in {llm_posts(procs[w].user_id, t.description, t.direction,
                           procs[w].account.account_type, procs[w].account_id)} :
       \E c \in {IF n = 0 THEN NoLLMCall
                  ELSE LLMCall(procs[w].llm_call.n + n, procs[w].i, llm.kind)} :
          IF IsRaised(r)
          THEN \E b \in {on_exception(procs[w].batch, r.confidence_score)} :
                  /\ procs' = [procs EXCEPT
                        ![w].pc = "raised", ![w].batch = b, ![w].llm_call = c,
                        ![w].response = Response(500, "Import failed: "
                                                         \o r.confidence_score,
                                                 Summary(NoBatch))]
                  /\ import_batches' = import_batches \cup {b}
          ELSE /\ procs' = [procs EXCEPT ![w].pc = "insert", ![w].cat_result = r,
                                         ![w].llm_call = c]
               /\ UNCHANGED import_batches
    /\ UNCHANGED <<transactions, category_rules, categories, accounts, nimports, faults,
                   call, ret>>

\* Lines 118-122: the transaction is inserted and counted.
Insert(w) ==
    /\ procs[w].pc = "insert"
    /\ transactions' = transactions \cup
          {new_transaction(procs[w].batch, procs[w].parsed_txns[procs[w].i],
                           procs[w].account, procs[w].cat_result, procs[w].i)}
    /\ procs' = [procs EXCEPT
          ![w].batch.success_count = @ + 1,
          ![w].i = @ + 1,
          ![w].cat_result = Pending,
          ![w].pc = after_record(procs[w].i, Len(procs[w].parsed_txns))]
    /\ UNCHANGED <<import_batches, category_rules, categories, accounts, nimports, faults,
                   call, ret>>

\* Lines 124-137: the status is set, the batch inserted, the summary returned.
PersistBatch(w) ==
    /\ procs[w].pc = "persist"
    /\ \E b \in {[procs[w].batch EXCEPT
                    !.status = batch_status(procs[w].batch.success_count)]} :
          /\ import_batches' = import_batches \cup {b}
          /\ procs' = [procs EXCEPT ![w].pc = "returned", ![w].batch = b,
                                    ![w].response = Response(200, None, Summary(b))]
    /\ UNCHANGED <<transactions, category_rules, categories, accounts, nimports, faults,
                   call, ret>>

\* A store fault that strikes the insert of the batch after the document was
\* written.
StoreFault_after_write(w) ==
    /\ procs[w].pc \in {"check", "insert", "persist"}
    /\ faults < MaxFaults
    /\ faults' = faults + 1
    /\ \E b \in {on_exception(procs[w].batch, "store unavailable")} :
          /\ procs' = [procs EXCEPT ![w].pc = "raised", ![w].batch = b,
                                    ![w].response =
                                        Response(500, "Import failed: store unavailable",
                                                 Summary(NoBatch))]
          /\ import_batches' = import_batches \cup {b} \cup
                IF procs[w].pc = "persist"
                THEN {[procs[w].batch EXCEPT
                          !.status = batch_status(procs[w].batch.success_count)]}
                ELSE {}
    /\ UNCHANGED <<transactions, category_rules, categories, accounts, nimports, call,
                   ret>>

\* An awaited store operation of the try block raises (the duplicate lookup,
\* the insert of the transaction, the insert of the batch): nothing is
\* written, and the except block runs.
StoreFault(w) ==
    /\ procs[w].pc \in {"check", "insert", "persist"}
    /\ faults < MaxFaults
    /\ faults' = faults + 1
    /\ Fail(w, "store unavailable")
    /\ UNCHANGED <<transactions, category_rules, categories, accounts, nimports, call,
                   ret>>

Next ==
    \E w \in Workers :
        \/ \E req \in ImportRequests : Start(w, req)
        \/ ReadAndParse(w)
        \/ FindAccount(w)
        \/ CheckDuplicate(w)
        \/ \E llm \in ImportLLMOutcomes : Categorize(w, llm)
        \/ Insert(w)
        \/ PersistBatch(w)
        \/ StoreFault(w)

Spec == Init /\ [][Next]_vars

(***************************************************************************)
(* SpecDelete: the imports of Spec, with a store that answers every        *)
(* operation, together with delete-all requests                            *)
(* (routes/settings.py, delete_all_transactions, lines 19-64).  call is    *)
(* the latest delete-all request, with how many were made and how many     *)
(* imports had started when transactions were last deleted; ret is the     *)
(* answer to it.                                                           *)
(***************************************************************************)
MaxDeletes == 1

\* models/schemas.py DeleteAllTransactionsRequest.
DeleteAllTransactionsRequest(confirmation_text, delete_transactions, delete_categories, delete_rules, delete_accounts, delete_imports) ==
    [confirmation_text |-> confirmation_text, delete_transactions |-> delete_transactions,
     delete_categories |-> delete_categories, delete_rules |-> delete_rules,
     delete_accounts |-> delete_accounts, delete_imports |-> delete_imports]

\* The request with the default flags, one with a wrong confirmation text and
\* one that selects nothing.
DeleteRequests ==
    {DeleteAllTransactionsRequest(" delete all ", TRUE, FALSE, FALSE, FALSE, FALSE),
     DeleteAllTransactionsRequest("DELETE", TRUE, FALSE, FALSE, FALSE, FALSE),
     DeleteAllTransactionsRequest("DELETE ALL", FALSE, FALSE, FALSE, FALSE, FALSE)}

UpperChar(c) ==
    CASE c = "a" -> "A" [] c = "b" -> "B" [] c = "c" -> "C" [] c = "d" -> "D"
      [] c = "e" -> "E" [] c = "f" -> "F" [] c = "g" -> "G" [] c = "h" -> "H"
      [] c = "i" -> "I" [] c = "j" -> "J" [] c = "k" -> "K" [] c = "l" -> "L"
      [] c = "m" -> "M" [] c = "n" -> "N" [] c = "o" -> "O" [] c = "p" -> "P"
      [] c = "q" -> "Q" [] c = "r" -> "R" [] c = "s" -> "S" [] c = "t" -> "T"
      [] c = "u" -> "U" [] c = "v" -> "V" [] c = "w" -> "W" [] c = "x" -> "X"
      [] c = "y" -> "Y" [] c = "z" -> "Z" [] OTHER -> c

RECURSIVE upper_from(_, _)
upper_from(s, i) ==
    IF i > Len(s) THEN "" ELSE UpperChar(SubSeq(s, i, i)) \o upper_from(s, i + 1)

\* str.upper
upper(s) == Only({upper_from(x, 1) : x \in {s}})

\* A validation that compares the confirmation text as typed.
delete_accepted_as_typed(request) ==
    /\ request.confirmation_text = "DELETE ALL"
    /\ \/ request.delete_transactions \/ request.delete_categories
       \/ request.delete_rules \/ request.delete_accounts \/ request.delete_imports

\* Lines 24-29: the request is accepted when the confirmation text, trimmed
\* and in upper case, is DELETE ALL and at least one data type is selected.
delete_accepted(request) ==
    /\ upper(strip(request.confirmation_text)) = "DELETE ALL"
    /\ \/ request.delete_transactions \/ request.delete_categories
       \/ request.delete_rules \/ request.delete_accounts \/ request.delete_imports

\* Who sends which request: u1 each of them, u2 the one with the default flags.
DeleteCalls ==
    {<<"u1", request>> : request \in DeleteRequests}
        \cup {<<"u2", request>> : request \in {r \in DeleteRequests : delete_accepted(r)}}

NoDeleteCall ==
    [user_id |-> None,
     request |-> DeleteAllTransactionsRequest(None, FALSE, FALSE, FALSE, FALSE, FALSE),
     n |-> 0, deleted_by |-> None, imports |-> 0]

DeleteResponse(status_code, transactions_deleted, import_batches_deleted) ==
    [status_code |-> status_code,
     deletion_results |-> [transactions |-> transactions_deleted,
                           import_batches |-> import_batches_deleted]]

NoDeleteResponse == DeleteResponse(0, 0, 0)

\* The imports of the reimport scenario: two files, into a1.
ReimportRequests ==
    {r \in ImportRequests :
        <<r.account_id, r.filename>> \in
            {<<"a1", "jan.csv">>, <<"a1", "twice.csv">>}}

\* The inference endpoint answers every call of the reimport scenario.
ReimportLLMOutcomes == {llm \in ImportLLMOutcomes : llm.kind = "ok"}

\* What another user, u2, has in the stores before u1's requests: a transaction
\* with the date, amount and description of the first record of jan.csv, the
\* batch it came with, and a rule.
OtherUserBatch ==
    [ImportBatch("b-u2", "u2", "a3", "HDFC_BANK", "jan.csv") EXCEPT
        !.total_rows = 1, !.success_count = 1, !.status = "SUCCESS"]

OtherUserTransactions ==
    {new_transaction(OtherUserBatch, ParsedUploads["jan.csv"].records[1],
                     Account("a3", "u2", "BANK"), NoResult, 1)}

OtherUserRules ==
    <<CategoryRule("r-u2", "u2", "zomato", "CONTAINS", None, "cat-u2-secret", 50, TRUE)>>

InitDelete ==
    /\ transactions = OtherUserTransactions
    /\ import_batches = {OtherUserBatch}
    /\ category_rules = ImportRules \o OtherUserRules
    /\ categories = DefaultCategories
    /\ accounts = DefaultAccounts
    /\ procs = [w \in Workers |-> Idle]
    /\ nimports = 0
    /\ faults = 0
    /\ call = NoDeleteCall
    /\ ret = NoDeleteResponse

\* A delete_many that ignores the filter.
delete_many_unfiltered(docs, user_id) == {}

\* delete_many({"user_id": user_id}) on a collection held as a set (lines 37,
\* 52, 57): the documents that stay.
delete_many(docs, user_id) == {d \in docs : d.user_id # user_id}

\* delete_many({"user_id": user_id}) on a collection held in store order
\* (lines 42, 47).
delete_many_seq(docs, user_id) == SelectSeq(docs, LAMBDA d : d.user_id # user_id)

\* Lines 19-64: a rejected request answers 400 and deletes nothing; an accepted
\* one deletes the user's documents of each selected type.
DeleteAll(user_id, request) ==
    /\ call.n < MaxDeletes
    /\ IF ~delete_accepted(request)
       THEN /\ ret' = DeleteResponse(400, 0, 0)
            /\ call' = [call EXCEPT !.user_id = user_id, !.request = request, !.n = @ + 1]
            /\ UNCHANGED <<transactions, import_batches, category_rules, categories,
                           accounts>>
       ELSE /\ transactions' = IF request.delete_transactions
                               THEN delete_many(transactions, user_id)
                               ELSE transactions
            /\ categories' = IF request.delete_categories
                             THEN delete_many_seq(categories, user_id)
                             ELSE categories
            /\ category_rules' = IF request.delete_rules
                                 THEN delete_many_seq(category_rules, user_id)
                                 ELSE category_rules
            /\ accounts' = IF request.delete_accounts
                           THEN delete_many(accounts, user_id)
                           ELSE accounts
            /\ import_batches' = IF request.delete_imports
                                 THEN delete_many(import_batches, user_id)
                                 ELSE import_batches
            /\ ret' = DeleteResponse(200,
                         IF request.delete_transactions
                         THEN Cardinality({t \in transactions : t.user_id = user_id})
                         ELSE 0,
                         IF request.delete_imports
                         THEN Cardinality({b \in import_batches : b.user_id = user_id})
                         ELSE 0)
            /\ call' = [call EXCEPT
                  !.user_id = user_id, !.request = request, !.n = @ + 1,
                  !.deleted_by = IF request.delete_transactions THEN user_id ELSE @,
                  !.imports = IF request.delete_transactions THEN nimports ELSE @]
    /\ UNCHANGED <<procs, nimports, faults>>

NextDelete ==
    \/ \E w \in Workers :
          \/ \E req \in ReimportRequests : Start(w, req)
          \/ ReadAndParse(w)
          \/ FindAccount(w)
          \/ CheckDuplicate(w)
          \/ \E llm \in ReimportLLMOutcomes : Categorize(w, llm)
          \/ Insert(w)
          \/ PersistBatch(w)
    \/ \E call_ \in DeleteCalls : DeleteAll(call_[1], call_[2])

SpecDelete == InitDelete /\ [][NextDelete]_vars

(***************************************************************************)
(* Properties of Spec                                                      *)
(***************************************************************************)
\* The transactions persisted for a batch.
TransactionsOf(batch_id) == {t \in transactions : t.import_batch_id = batch_id}

InFlight == {"read", "account", "check", "categorize", "insert", "persist"}

\* The status line 124 prescribes, written out.
StatusFor(success_count, status) ==
    /\ success_count > 0 => status = "SUCCESS"
    /\ success_count = 0 => status = "FAILED"

\* C1: the batch of an import is PENDING from its creation until the request
\* ends; a batch persisted without an exception, and the summary returned for
\* it, is SUCCESS when success_count > 0 and FAILED when success_count = 0
\* (zero extracted rows and only duplicates included); a batch persisted by the
\* except block is FAILED; no persisted or returned batch is PENDING or PARTIAL.
C1_BatchStatus ==
    /\ \A w \in Workers :
          /\ procs[w].pc \in InFlight => procs[w].batch.status = "PENDING"
          /\ procs[w].pc = "raised" => procs[w].batch.status = "FAILED"
          /\ procs[w].pc = "returned" =>
                /\ procs[w].response.summary.status \in {"SUCCESS", "FAILED"}
                /\ StatusFor(procs[w].response.summary.success_count,
                             procs[w].response.summary.status)
    /\ \A b \in import_batches :
          /\ b.status \in {"SUCCESS", "FAILED"}
          /\ b.error_log = None => StatusFor(b.success_count, b.status)
          /\ b.error_log # None => b.status = "FAILED"

\* C1 witness: one import has returned SUCCESS with its successes, another has
\* returned FAILED for a file of which every row was a duplicate; both batches
\* are persisted.
C1_Witness ==
    \E v, w \in Workers :
        /\ procs[v].pc = "returned"
        /\ procs[v].response.summary.status = "SUCCESS"
        /\ procs[v].response.summary.success_count > 0
        /\ procs[v].batch \in import_batches
        /\ procs[w].pc = "returned"
        /\ procs[w].response.summary.status = "FAILED"
        /\ procs[w].response.summary.total_rows > 0
        /\ procs[w].response.summary.duplicate_count =
              procs[w].response.summary.total_rows
        /\ procs[w].batch \in import_batches

\* C2: an import of a file that the same user had already imported into the
\* same account, that import having run to its end, inserts no transaction and
\* counts no success, and when its row loop has ended every row of the file is
\* counted as a duplicate.
C2_RepeatImportAllDuplicates ==
    \A w \in Workers :
        procs[w].repeat =>
            /\ procs[w].batch.success_count = 0
            /\ TransactionsOf(procs[w].batch.id) = {}
            /\ procs[w].pc \in {"persist", "returned"} =>
                  procs[w].batch.duplicate_count = procs[w].batch.total_rows
            /\ procs[w].pc = "returned" =>
                  /\ procs[w].response.summary.success_count = 0
                  /\ procs[w].response.summary.duplicate_count =
                        procs[w].response.summary.total_rows
                  /\ procs[w].batch \in import_batches

\* C2 witness: the second import of a file with rows has returned, the first
\* import of it having inserted transactions.
C2_Witness ==
    \E w \in Workers :
        /\ procs[w].repeat
        /\ procs[w].pc = "returned"
        /\ procs[w].response.summary.total_rows > 0
        /\ procs[w].response.summary.duplicate_count =
              procs[w].response.summary.total_rows
        /\ \E b \in import_batches :
              /\ b.id # procs[w].batch.id
              /\ b.original_file_name = procs[w].filename
              /\ b.account_id = procs[w].account_id
              /\ b.success_count > 0
              /\ Cardinality(TransactionsOf(b.id)) = b.success_count

\* The request of slot w ended in the except block while record i of its row
\* loop was being processed.
RaisedInLoop(w) ==
    /\ procs[w].pc = "raised"
    /\ procs[w].i \in 1..Len(procs[w].parsed_txns)

\* C6: when processing record k raises, the batch is persisted FAILED with the
\* exception text as error_log; success_count and duplicate_count are the
\* numbers of records inserted and skipped among the k-1 before it; exactly
\* the transactions inserted before the exception are persisted, none of a later
\* record; the caller receives the error 500 with that text and no summary.
C6_RowExceptionAbortsImport ==
    \A w \in Workers :
        RaisedInLoop(w) =>
            \E b \in {procs[w].batch} :
                /\ b \in import_batches
                /\ b.status = "FAILED"
                /\ b.error_log # None
                /\ procs[w].response.status_code = 500
                /\ procs[w].response.detail = "Import failed: " \o b.error_log
                /\ procs[w].response.summary = Summary(NoBatch)
                /\ b.success_count + b.duplicate_count = procs[w].i - 1
                /\ Cardinality(TransactionsOf(b.id)) = b.success_count
                /\ \A t \in TransactionsOf(b.id) :
                      \E k \in 1..(procs[w].i - 1) :
                          /\ t.id = b.id \o "-" \o ToString(k)
                          /\ t.description = procs[w].parsed_txns[k].description

\* C6 witness: the second record of a file raised after the first had been
\* inserted; the transaction of the first is persisted and counted.
C6_Witness ==
    \E w \in Workers :
        /\ RaisedInLoop(w)
        /\ procs[w].i = 2
        /\ procs[w].batch.success_count = 1
        /\ Cardinality(TransactionsOf(procs[w].batch.id)) = 1
        /\ procs[w].batch \in import_batches

\* No extractor result for the file of slot w, or no account of its user with
\* the requested id.
Undecoded(w) == UploadOf(procs[w].filename).content = Undecodable

AccountMissing(w) ==
    \A a \in accounts : ~(a.id = procs[w].account_id /\ a.user_id = procs[w].user_id)

\* C7: an import whose file no reader decodes, or whose account is not an
\* account of the user, never enters the row loop and persists no transaction;
\* when it has ended its batch is persisted FAILED with the exception text as
\* error_log, success_count 0 and duplicate_count 0.
C7_WholeFileFailure ==
    \A w \in Workers :
        (procs[w].pc # "idle" /\ (Undecoded(w) \/ AccountMissing(w))) =>
            /\ procs[w].pc \in {"read", "account", "raised"}
            /\ TransactionsOf(procs[w].batch.id) = {}
            /\ procs[w].pc = "raised" =>
                  /\ procs[w].batch \in import_batches
                  /\ procs[w].batch.status = "FAILED"
                  /\ procs[w].batch.error_log # None
                  /\ procs[w].batch.error_log =
                        (IF Undecoded(w) THEN ParsedUploads[procs[w].filename].error
                                         ELSE "404: Account not found")
                  /\ procs[w].batch.success_count = 0
                  /\ procs[w].batch.duplicate_count = 0
                  /\ procs[w].response.status_code = 500

\* C7 witness: one import has ended on a file nothing decodes, another on an
\* account of a different user.
C7_Witness ==
    \E v, w \in Workers :
        /\ procs[v].pc = "raised" /\ Undecoded(v)
        /\ procs[w].pc = "raised" /\ AccountMissing(w) /\ ~Undecoded(w)
        /\ procs[w].batch.total_rows > 0
        /\ {procs[v].batch, procs[w].batch} \subseteq import_batches

\* C8: two persisted transactions that share a duplicate fingerprint never
\* come from one import: within an import the second is skipped as a
\* duplicate, so such a pair arises only from two imports that each passed
\* check_duplicate before the other inserted.
C8_SharedFingerprintAcrossImports ==
    \A t, u \in transactions :
        (t # u /\ Fingerprint(t) = Fingerprint(u)) =>
            /\ t.import_batch_id # u.import_batch_id
            /\ \A w \in Workers :
                  procs[w].batch.id \in {t.import_batch_id, u.import_batch_id} =>
                      procs[w].batch.success_count > 0

\* C8 witness: two imports for the same user and account have both returned,
\* each counting every record of its file as a success, and the store holds
\* two transactions with one fingerprint, one from each batch.
C8_Witness ==
    \E v, w \in Workers :
        /\ v # w
        /\ procs[v].pc = "returned" /\ procs[w].pc = "returned"
        /\ procs[v].user_id = procs[w].user_id
        /\ procs[v].account_id = procs[w].account_id
        /\ procs[v].batch.success_count = procs[v].batch.total_rows
        /\ procs[w].batch.success_count = procs[w].batch.total_rows
        /\ procs[v].batch.duplicate_count = 0 /\ procs[w].batch.duplicate_count = 0
        /\ \E t \in TransactionsOf(procs[v].batch.id) :
           \E u \in TransactionsOf(procs[w].batch.id) :
              Fingerprint(t) = Fingerprint(u)

(***************************************************************************)
(* Properties of SpecDelete                                                *)
(***************************************************************************)

\* The import of slot w started after the latest deletion of its user's
\* transactions.
StartedAfterDelete(w) ==
    /\ call.deleted_by = procs[w].user_id
    /\ procs[w].batch.id \in {"b" \o ToString(k) : k \in (call.imports + 1)..nimports}

\* An import batch record of an earlier import of slot w's file into the same
\* account, by the same user, that counted successes, is persisted while none
\* of its transactions is.
EarlierImportDeleted(w) ==
    \E b \in import_batches :
        /\ b.id # procs[w].batch.id
        /\ b.user_id = procs[w].user_id
        /\ b.account_id = procs[w].account_id
        /\ b.original_file_name = procs[w].filename
        /\ b.success_count > 0
        /\ TransactionsOf(b.id) = {}

\* The import of slot w has returned and the user's persisted transactions are
\* those of its batch alone.
ReturnedAlone(w) ==
    /\ procs[w].pc = "returned"
    /\ \A t \in transactions :
          t.user_id = procs[w].user_id => t.import_batch_id = procs[w].batch.id

\* C20: an import of a file imported before, started after delete-all removed
\* the user's transactions and with the earlier import batch record still
\* persisted, persists rows again: it counts at least one success, it persists
\* as many transactions as it counts, and it counts as duplicates only the
\* rows that repeat an earlier row of the file itself; no row is a duplicate
\* of a deleted transaction.  The case is that of an import whose user has no
\* transactions of another import in the store.
C20_ReimportAfterDeleteAll ==
    \A w \in Workers :
        (/\ procs[w].repeat
         /\ StartedAfterDelete(w)
         /\ EarlierImportDeleted(w)
         /\ ReturnedAlone(w)) =>
            /\ procs[w].response.summary.success_count > 0
            /\ Cardinality(TransactionsOf(procs[w].batch.id)) =
                  procs[w].response.summary.success_count
            /\ procs[w].response.summary.success_count =
                  Cardinality({<<r.date, r.amount, r.description>> :
                                  r \in {procs[w].parsed_txns[k] :
                                            k \in 1..Len(procs[w].parsed_txns)}})
            /\ procs[w].response.summary.success_count
                  + procs[w].response.summary.duplicate_count =
                  procs[w].response.summary.total_rows
            /\ procs[w].batch \in import_batches

\* C20 witness: after a delete-all the second import of a file has returned
\* with every row a success and none a duplicate, the batch record of the
\* first import being persisted with a positive success count and none of its
\* transactions.
C20_Witness ==
    \E w \in Workers :
        /\ procs[w].repeat
        /\ StartedAfterDelete(w)
        /\ EarlierImportDeleted(w)
        /\ ReturnedAlone(w)
        /\ ret.status_code = 200
        /\ ret.deletion_results.transactions > 0
        /\ procs[w].response.summary.success_count > 0
        /\ procs[w].response.summary.duplicate_count = 0
        /\ procs[w].response.summary.success_count =
              procs[w].response.summary.total_rows

\* The step is a delete-all request of user_id being answered.
DeleteAnswered(user_id) == call'.n = call.n + 1 /\ call'.user_id = user_id

DefaultFlags(request) ==
    /\ request.delete_transactions
    /\ ~request.delete_categories /\ ~request.delete_rules
    /\ ~request.delete_accounts /\ ~request.delete_imports

\* The confirmation texts that are DELETE ALL up to case and surrounding
\* whitespace, among those of the requests.
ValidConfirmations == {" delete all ", "DELETE ALL"}

\* C21: a delete-all request with a valid confirmation text and the default
\* flags leaves the calling user without transactions and changes nothing
\* else: the transactions of other users, the categories (the user's, the
\* system's, other users'), the rules, the accounts and the import batches are
\* as before.
C21_DefaultDeleteAllFrame ==
    [][\A u \in Users :
          (/\ DeleteAnswered(u)
           /\ call'.request.confirmation_text \in ValidConfirmations
           /\ DefaultFlags(call'.request)) =>
              /\ ret'.status_code = 200
              /\ {t \in transactions' : t.user_id = u} = {}
              /\ {t \in transactions' : t.user_id # u} =
                    {t \in transactions : t.user_id # u}
              /\ ret'.deletion_results.transactions =
                    Cardinality({t \in transactions : t.user_id = u})
              /\ categories' = categories
              /\ category_rules' = category_rules
              /\ accounts' = accounts
              /\ import_batches' = import_batches]_vars

\* C21 witness: a delete-all with the default flags has answered 200 having
\* deleted transactions; the user has none, while another user's transaction,
\* the user's own category and rules, the system categories and the user's
\* import batch are in the stores.
C21_Witness ==
    /\ ret.status_code = 200
    /\ ret.deletion_results.transactions > 0
    /\ DefaultFlags(call.request)
    /\ {t \in transactions : t.user_id = call.user_id} = {}
    /\ \E t \in transactions : t.user_id # call.user_id
    /\ \E k \in 1..Len(categories) : categories[k].user_id = call.user_id
    /\ \E k \in 1..Len(categories) : categories[k].is_system
    /\ \E k \in 1..Len(category_rules) : category_rules[k].user_id = call.user_id
    /\ \E b \in import_batches : b.user_id = call.user_id /\ b.success_count > 0

C22_LowerCaseAccepted ==
    /\ ret.status_code = 200
    /\ call.request.confirmation_text = " delete all "
    /\ ret.deletion_results.transactions > 0

(***************************************************************************)
(* Further properties of Spec                                              *)
(***************************************************************************)

\* The persisted transaction that slot w's import built from record k.
InsertedFor(w, k) ==
    {t \in transactions : t.id = procs[w].batch.id \o "-" \o ToString(k)}

\* C23: for the record of an iteration the inference endpoint is posted to at
\* most once, and only when check_duplicate answered no and neither the smart
\* patterns nor the rules returned a result for it; a result of source LLM
\* comes from such a post that answered.  When the post fails, the record is
\* categorized UNCATEGORISED with no category, the failure ends no request in
\* the except block, and once inserted the record is persisted so and the row
\* loop stands at the next record or at its end.
C23_InferenceCall ==
    \A w \in Workers :
        \E c \in {procs[w].llm_call} :
            /\ c.n <= 1
            /\ procs[w].cat_result.categorisation_source = "LLM" =>
                  c.n = 1 /\ c.kind = "ok" /\ c.i = procs[w].i
            /\ c.n = 1 =>
                  /\ ~procs[w].is_dup
                  /\ c.i \in 1..Len(procs[w].parsed_txns)
                  /\ \E t \in {procs[w].parsed_txns[c.i]} :
                        /\ categorize_with_smart_patterns(
                               t.description, t.direction,
                               procs[w].account.account_type) = NoResult
                        /\ categorize_with_rules(procs[w].user_id, t.description,
                                                 procs[w].account_id) = NoResult
            /\ (c.n = 1 /\ c.kind # "ok") =>
                  /\ procs[w].pc \in {"insert", "check", "persist", "returned", "raised"}
                  /\ procs[w].pc = "insert" =>
                        procs[w].cat_result = Uncategorised /\ procs[w].i = c.i
                  /\ procs[w].pc = "raised" =>
                        procs[w].batch.error_log = "store unavailable"
                  /\ procs[w].pc \in {"check", "persist", "returned"} =>
                        /\ procs[w].i = c.i + 1
                        /\ InsertedFor(w, c.i) # {}
                        /\ \A t \in InsertedFor(w, c.i) :
                              /\ t.category_id = None
                              /\ t.categorisation_source = "UNCATEGORISED"

\* C23 witness: the endpoint timed out for the first record of a file, the
\* record is persisted UNCATEGORISED and the row loop stands at the duplicate
\* check of the second record.
C23_Witness ==
    \E w \in Workers :
        /\ procs[w].llm_call = LLMCall(1, 1, "timeout")
        /\ procs[w].pc = "check"
        /\ procs[w].i = 2
        /\ procs[w].batch.success_count = 1
        /\ \E t \in InsertedFor(w, 1) : t.categorisation_source = "UNCATEGORISED"

\* The batch records written with the identity of batch_id.
BatchRecords(batch_id) == {b \in import_batches : b.id = batch_id}

\* C24: an invocation of import_transactions writes one import batch record:
\* none while it runs, one once it has answered; the record of a request that
\* returned carries no error and was written when the inserts of the import
\* were done, the record of a request that ended in the except block is FAILED
\* with the error text; no identity has two records, and every record counts
\* as successes the transactions persisted for it, none being inserted after
\* the record.
C24_OneBatchRecord ==
    /\ \A w \in Workers :
          /\ procs[w].pc \in InFlight => BatchRecords(procs[w].batch.id) = {}
          /\ procs[w].pc = "returned" =>
                /\ BatchRecords(procs[w].batch.id) = {procs[w].batch}
                /\ procs[w].batch.error_log = None
                /\ procs[w].batch.status # "PENDING"
                /\ procs[w].i = Len(procs[w].parsed_txns) + 1
          /\ procs[w].pc = "raised" =>
                /\ BatchRecords(procs[w].batch.id) = {procs[w].batch}
                /\ procs[w].batch.status = "FAILED"
                /\ procs[w].batch.error_log # None
    /\ \A k \in 1..nimports :
          Cardinality(BatchRecords("b" \o ToString(k))) =
             IF \E w \in Workers : /\ procs[w].pc \in InFlight
                                   /\ procs[w].batch.id = "b" \o ToString(k)
             THEN 0 ELSE 1
    /\ \A b \in import_batches :
          Cardinality(TransactionsOf(b.id)) = b.success_count

\* C24 witness: two requests have answered, one on the success path after
\* inserting transactions and one in the except block after the insert of its
\* batch on the success path raised, and each has one batch record.
C24_Witness ==
    \E v, w \in Workers :
        /\ procs[v].pc = "returned"
        /\ procs[v].batch.success_count > 0
        /\ BatchRecords(procs[v].batch.id) = {procs[v].batch}
        /\ procs[w].pc = "raised"
        /\ procs[w].i = Len(procs[w].parsed_txns) + 1
        /\ procs[w].batch.success_count > 0
        /\ procs[w].batch.error_log = "store unavailable"
        /\ BatchRecords(procs[w].batch.id) = {procs[w].batch}

\* C25: a step of an import leaves every persisted transaction as it is, all
\* fields included, and adds at most one, of the running batch and under a
\* fresh identity; categories, rules and accounts are not written.
C25_ImportOnlyInserts ==
    [][/\ transactions \subseteq transactions'
       /\ Cardinality(transactions' \ transactions) <= 1
       /\ \A t \in transactions' \ transactions :
             /\ \A u \in transactions : u.id # t.id
             /\ \E w \in Workers : /\ procs[w].pc = "insert"
                                   /\ t.import_batch_id = procs[w].batch.id
       /\ categories' = categories
       /\ category_rules' = category_rules
       /\ accounts' = accounts]_vars

\* C25 witness: an import has counted one record as a duplicate and inserted
\* another; the transaction that made the record a duplicate is
\* persisted with the batch, category and source it was inserted with.
C25_Witness ==
    \E w \in Workers :
        /\ procs[w].pc = "returned"
        /\ procs[w].batch.duplicate_count > 0
        /\ procs[w].batch.success_count > 0
        /\ \E k \in 1..Len(procs[w].parsed_txns) :
           \E t \in transactions :
              /\ t.import_batch_id # procs[w].batch.id
              /\ t.user_id = procs[w].user_id /\ t.account_id = procs[w].account_id
              /\ t.date = procs[w].parsed_txns[k].date
              /\ t.amount = procs[w].parsed_txns[k].amount
              /\ t.description = procs[w].parsed_txns[k].description
              /\ \E b \in import_batches :
                    b.id = t.import_batch_id /\ b.success_count > 0

\* C26: each batch's counters follow its own row loop: while record i is being
\* processed success_count + duplicate_count = i - 1 <= total_rows, with
\* success_count the number of transactions persisted for the batch; when the
\* loop has completed the sum is total_rows; error_count is 0 throughout; and
\* the same holds of every persisted batch record, the sum being total_rows
\* for those written on the success path.
C26_CounterConservation ==
    /\ \A w \in Workers :
          \E b \in {procs[w].batch} :
             /\ b.error_count = 0
             /\ b.success_count + b.duplicate_count <= b.total_rows
             /\ b.success_count = Cardinality(TransactionsOf(b.id))
             /\ procs[w].pc \in {"check", "categorize", "insert", "persist", "returned"} =>
                   /\ b.total_rows = Len(procs[w].parsed_txns)
                   /\ b.success_count + b.duplicate_count = procs[w].i - 1
             /\ procs[w].pc \in {"persist", "returned"} =>
                   b.success_count + b.duplicate_count = b.total_rows
    /\ \A b \in import_batches :
          /\ b.error_count = 0
          /\ b.success_count + b.duplicate_count <= b.total_rows
          /\ b.error_log = None => b.success_count + b.duplicate_count = b.total_rows

\* C26 witness: two imports run interleaved, one in its row loop with a
\* success counted and a record to go, the other having completed its loop
\* with a duplicate and a success.
C26_Witness ==
    \E v, w \in Workers :
        /\ v # w
        /\ procs[v].pc \in {"check", "categorize", "insert"}
        /\ procs[v].batch.success_count = 1
        /\ procs[v].batch.total_rows = 2
        /\ procs[w].pc = "persist"
        /\ procs[w].batch.duplicate_count = 1
        /\ procs[w].batch.success_count = 1
        /\ procs[w].batch.total_rows = 2

(***************************************************************************)
(* SpecSeq: imports one at a time.  A request arrives only when no other   *)
(* is running; the store may hold a transaction of an earlier import.      *)
(***************************************************************************)

\* A batch on record before the first request, and the transaction it
\* inserted: the record that twice.csv repeats and jan.csv ends with.
EarlierBatch ==
    [ImportBatch("b0", "u1", "a1", "HDFC_BANK", "dec.csv") EXCEPT
        !.total_rows = 1, !.success_count = 1, !.status = "SUCCESS"]

EarlierTransactions ==
    {new_transaction(EarlierBatch, ParsedUploads["twice.csv"].records[1],
                     Account("a1", "u1", "BANK"), Uncategorised, 1)}

InitSeq ==
    /\ \E earlier \in BOOLEAN :
          /\ transactions = IF earlier THEN EarlierTransactions ELSE {}
          /\ import_batches = IF earlier THEN {EarlierBatch} ELSE {}
    /\ category_rules = ImportRules
    /\ categories = DefaultCategories
    /\ accounts = DefaultAccounts
    /\ procs = [w \in Workers |-> Idle]
    /\ nimports = 0
    /\ faults = 0
    /\ call = None
    /\ ret = None

\* A request that arrives when every slot is free.
StartAlone(w, req) ==
    /\ \A v \in Workers : Free(v)
    /\ Start(w, req)

NextSeq ==
    \E w \in Workers :
        \/ \E req \in ImportRequests : StartAlone(w, req)
        \/ ReadAndParse(w)
        \/ FindAccount(w)
        \/ CheckDuplicate(w)
        \/ \E llm \in ImportLLMOutcomes : Categorize(w, llm)
        \/ Insert(w)
        \/ PersistBatch(w)
        \/ StoreFault(w)

SpecSeq == InitSeq /\ [][NextSeq]_vars

\* The (date, amount, description) of the records of slot w's file.
FileFingerprints(w) ==
    {<<procs[w].parsed_txns[k].date, procs[w].parsed_txns[k].amount,
       procs[w].parsed_txns[k].description>> : k \in 1..Len(procs[w].parsed_txns)}

\* C27: when imports run one at a time from a store without two transactions
\* of one user and account that share (date, amount, description), no state
\* holds such a pair; an import that has returned has every record of its file
\* persisted exactly once, by itself or from before, and has counted as
\* duplicates the rows it did not insert, the later occurrences of a repeated
\* row among them.
C27_SequentialImportsKeepFingerprintsUnique ==
    /\ \A t, u \in transactions : Fingerprint(t) = Fingerprint(u) => t = u
    /\ \A w \in Workers :
          procs[w].pc = "returned" =>
             /\ \A f \in FileFingerprints(w) :
                   Cardinality({t \in transactions :
                                   Fingerprint(t) = <<procs[w].user_id, procs[w].account_id,
                                                      f[1], f[2], f[3]>>}) = 1
             /\ procs[w].batch.success_count <= Cardinality(FileFingerprints(w))
             /\ procs[w].batch.duplicate_count =
                   procs[w].batch.total_rows - Cardinality(TransactionsOf(procs[w].batch.id))

\* C27 witness: starting from the empty store, the import of the file that
\* repeats a row has returned with one transaction inserted and the second
\* occurrence counted as a duplicate.
C27_Witness ==
    \E w \in Workers :
        /\ procs[w].pc = "returned"
        /\ {b \in import_batches : b.id = "b0"} = {}
        /\ procs[w].batch.id = "b1"
        /\ procs[w].batch.total_rows = 2
        /\ Cardinality(FileFingerprints(w)) = 1
        /\ procs[w].batch.success_count = 1
        /\ procs[w].batch.duplicate_count = 1
        /\ Cardinality(transactions) = 1

(***************************************************************************)
(* SpecRules: the rule routes (routes/rules.py: create_rule, update_rule,  *)
(* import_rules) together with imports of one file, one at a time.  The    *)
(* identity of a rule, a uuid4 in the code, is the route that made it and  *)
(* its position in the store.                                              *)
(***************************************************************************)

\* models/schemas.py RuleCreate.
RuleCreate(pattern, match_type, account_id, category_id, priority) ==
    [pattern |-> pattern, match_type |-> match_type, account_id |-> account_id,
     category_id |-> category_id, priority |-> priority]

\* A key that a rule dict sent to import_rules does not hold.
Absent == "<absent>"

\* Category ids a client can send: a system category, the user's own, another
\* user's, and one that no category has.
SentCategoryIds == {"cat-food", "cat-u1-dining", "cat-u2-secret", "cat-gone"}

\* Bodies of create_rule and update_rule: rules on the description of the
\* salary record.
RuleBodies ==
    {RuleCreate("salary", "CONTAINS", None, c, 10) : c \in SentCategoryIds}

\* Rule dicts sent to import_rules: with a category_id, or without the key.
RuleDicts ==
    {RuleCreate("salary", "CONTAINS", None, c, 10) :
        c \in {"cat-food", "cat-u2-secret", Absent}}

\* The one import request of the scenario.
RuleImportRequests ==
    {r \in ImportRequests : r.account_id = "a1" /\ r.filename = "jan.csv"}

InitRules ==
    /\ transactions = {}
    /\ import_batches = {}
    /\ category_rules = <<>>
    /\ categories = DefaultCategories
    /\ accounts = DefaultAccounts
    /\ procs = [w \in Workers |-> Idle]
    /\ nimports = 0
    /\ faults = 0
    /\ call = None
    /\ ret = None

\* db.categories.find_one on the id among the system categories and the
\* user's own (rules.py 40-43 and 95-100).
category_visible(user_id, category_id) ==
    \E k \in 1..Len(categories) :
        /\ categories[k].id = category_id
        /\ categories[k].is_system = TRUE \/ categories[k].user_id = user_id

\* rules.py 25-31: the rule is built from the body and inserted.
CreateRule(user_id, rule_data) ==
    /\ Len(category_rules) < MaxRules
    /\ category_rules' = Append(category_rules,
          CategoryRule("c" \o ToString(Len(category_rules) + 1), user_id,
                       rule_data.pattern, rule_data.match_type, rule_data.account_id,
                       rule_data.category_id, rule_data.priority, TRUE))
    /\ UNCHANGED <<transactions, import_batches, categories, accounts, procs, nimports,
                   faults, call, ret>>

\* rules.py 34-61: the rule must be the user's and the category visible to the
\* user; pattern, match type, category and priority are set.
UpdateRule(user_id, k, rule_data) ==
    /\ k \in 1..Len(category_rules)
    /\ category_rules[k].user_id = user_id
    /\ category_visible(user_id, rule_data.category_id)
    /\ category_rules' = [category_rules EXCEPT
          ![k].pattern = rule_data.pattern,
          ![k].match_type = rule_data.match_type,
          ![k].category_id = rule_data.category_id,
          ![k].priority = rule_data.priority]
    /\ UNCHANGED <<transactions, import_batches, categories, accounts, procs, nimports,
                   faults, call, ret>>

\* rules.py 82-120, for a list of one dict: a dict whose category_id is not
\* visible to the user is skipped; one without the key is stored with a null
\* category_id.
ImportRulesCall(user_id, rule_data) ==
    /\ Len(category_rules) < MaxRules
    /\ rule_data.category_id # Absent =>
          category_visible(user_id, rule_data.category_id)
    /\ category_rules' = Append(category_rules,
          CategoryRule("i" \o ToString(Len(category_rules) + 1), user_id,
                       rule_data.pattern, rule_data.match_type, rule_data.account_id,
                       IF rule_data.category_id = Absent THEN None
                       ELSE rule_data.category_id,
                       rule_data.priority, TRUE))
    /\ UNCHANGED <<transactions, import_batches, categories, accounts, procs, nimports,
                   faults, call, ret>>

NextRules ==
    \/ \E rule_data \in RuleBodies : CreateRule("u1", rule_data)
    \/ \E k \in 1..MaxRules : \E rule_data \in RuleBodies : UpdateRule("u1", k, rule_data)
    \/ \E rule_data \in RuleDicts : ImportRulesCall("u1", rule_data)
    \/ \E w \in Workers :
          \/ \E req \in RuleImportRequests : StartAlone(w, req)
          \/ ReadAndParse(w)
          \/ FindAccount(w)
          \/ CheckDuplicate(w)
          \/ \E llm \in ImportLLMOutcomes : Categorize(w, llm)
          \/ Insert(w)
          \/ PersistBatch(w)

SpecRules == InitRules /\ [][NextRules]_vars

\* The persisted transactions whose category_id is set and names no category
\* visible to their user.
StrayCategory ==
    {t \in transactions :
        t.category_id # None /\ ~category_visible(t.user_id, t.category_id)}

\* C28: every non-null category_id on a persisted transaction names a category
\* that exists and is visible to the transaction's user, whichever strategy
\* assigned it and whichever route made the rule.
C28_WrittenCategoriesVisible == StrayCategory = {}

\* C28, where it holds: a category_id that is not visible was assigned by a
\* rule, and a rule made by create_rule is in the store; with rules made by
\* import_rules and changed by update_rule alone, the smart patterns and the
\* inference endpoint, every category_id written is visible.
C28_VisibleButForCreateRule ==
    \A t \in StrayCategory :
        /\ t.categorisation_source = "RULE"
        /\ \E k \in 1..Len(category_rules) :
              /\ category_rules[k].user_id = t.user_id
              /\ startswith(category_rules[k].id, "c")

\* C28, the failing case reached: a rule made by create_rule names another
\* user's category, or none, and an import has persisted a transaction of u1
\* with that category_id.
C28_CreateRuleCategoryWritten ==
    \E t \in StrayCategory :
    \E k \in 1..Len(category_rules) :
        /\ t.user_id = "u1"
        /\ t.categorisation_source = "RULE"
        /\ startswith(category_rules[k].id, "c")
        /\ category_rules[k].category_id = t.category_id
        /\ t.category_id \in {"cat-u2-secret", "cat-gone"}
        /\ \E b \in import_batches : b.id = t.import_batch_id /\ b.status = "SUCCESS"

====
